---- MODULE Spec2Model ----
(***************************************************************************)
(* Model of the agent-service orchestration core of GenXcoder:             *)
(*   core/agent_manager_v2.py   AgentManagerV2 (pipeline orchestrator)     *)
(*   core/iterative_executor.py IterativeExecutor (improve/evaluate loop)  *)
(*   models/feedback.py         feedback data structures                   *)
(* One action is one stretch of a coroutine between two awaits, or the     *)
(* synchronous agent call of a regular step. In every state but the one    *)
(* inside that call the event loop is free to serve a get_progress read.   *)
(***************************************************************************)
EXTENDS Integers, Sequences, FiniteSets, TLC

\* ------------------------------------------------------------------ bounds
\* execute_pipeline calls between two successful initialize_pipeline calls
MaxRuns == 2

\* largest max_iterations of a loop run on its own
MaxIterations == 3

\* /execute requests accepted by the API layer
MaxExecutions == 2

\* evaluator outputs normalized one after the other and aggregated
MaxFeedbacks == 2

\* ------------------------------------------------------------ dictionaries
\* A Python dict is a function from its keys; Put is d[k] = v.
EmptyDict == [k \in {} |-> 0]

Put(d, k, v) == [x \in DOMAIN d \cup {k} |-> IF x = k THEN v ELSE d[x]]

\* dict.update(other)
Update(d, other) ==
    [x \in DOMAIN d \cup DOMAIN other |-> IF x \in DOMAIN other THEN other[x] ELSE d[x]]

None == [kind |-> "none"]

\* --------------------------------------------------- pipeline configuration
\* Every pipeline declares the steps A, B, C in this order.
StepNames == <<"A", "B", "C">>

StepSet == {StepNames[i] : i \in 1..Len(StepNames)}

\* The planner's waves over the declared steps: the sequential chain, and A
\* and B sharing a wave.
ExecutionOrders ==
    { <<<<"A">>, <<"B">>, <<"C">>>>,
      <<<<"A", "B">>, <<"C">>>> }

\* max_iterations of the iterative step of a pipeline
PipelineMaxIterations == 2

\* quality_threshold of the iterative step of a pipeline
DefaultQualityThreshold == 85

\* The iterative_config of an iterative step.
IterativeConfig ==
    [improver_agent |-> "improver", evaluator_agent |-> "evaluator",
     max_iterations |-> PipelineMaxIterations,
     quality_threshold |-> DefaultQualityThreshold]

\* The pipelines the configuration manager knows: whether step B is optional,
\* whether it is iterative, and the waves. The pipeline's
\* name stands for the record.
PipelineConfigs ==
    { [kind |-> "config", optional |-> o, iterative |-> i, order |-> w] :
        o \in {{}, {"B"}}, i \in {{}, {"B"}}, w \in ExecutionOrders }

\* A name get_pipeline_config does not know.
UnknownPipeline == [kind |-> "unknown"]

\* PipelineConfig.get_execution_order
GetExecutionOrder(cfg) == cfg.order

\* step.optional
IsOptional(cfg, s) == s \in cfg.optional

\* step.is_iterative()
IsIterative(cfg, s) == s \in cfg.iterative

\* The keys initialize_pipeline asks agent_factory.create_agent for: the
\* improver and the evaluator for an iterative step, the step's own agent
\* for a regular one.
KeysOf(cfg) ==
    UNION { IF IsIterative(cfg, s)
            THEN {IterativeConfig.improver_agent, IterativeConfig.evaluator_agent}
            ELSE {s} : s \in StepSet }

\* ------------------------------------------------------------------- data
\* The caller's input, a step's output, and the two error payloads.
UserInput == [kind |-> "input"]

Output(s) == [kind |-> "output", by |-> s]

\* {"error": str(e), "optional": True}
OptionalErrorPayload(s) == [kind |-> "error", by |-> s, optional |-> TRUE]

\* {"error": str(e)}
GroupErrorPayload(s) == [kind |-> "error", by |-> s]

\* An event of the bus: its type and its source (a step, or the publisher).
Event(type, source) == [type |-> type, source |-> source]

\* --------------------------------------------------------- iterative loop
\* A value found under quality_score: a number, something that is no number
\* and has no :.1f format (a string such as "high", None), or a complex
\* number, which has the format and no order.
Num(n) == [type |-> "number", value |-> n]

NotANumber == [type |-> "str", value |-> 0]

Complex(n) == [type |-> "complex", value |-> n]

IsNumber(v) == v.type = "number"

\* The improver's output of an iteration.
Code(k) == [kind |-> "code", iteration |-> k]

\* quality_threshold values of a loop run on its own
Thresholds == {0, 50, 85, 100}

\* How many of the six positive and of the six negative keywords a text
\* holds: none, every positive one, or every negative one (a text with
\* "unclear", "inefficient" and "insecure" holds "clear", "efficient" and
\* "secure" too, the keywords being looked for as substrings).
TextKeywordCounts == {<<0, 0>>, <<6, 0>>, <<3, 6>>}

\* What the evaluator can return: a StructuredFeedback, a dict with a
\* quality_score (any value) whose sub-metrics are numbers or not, or text
\* with some positive and negative keywords in it.
EvaluatorOutputs ==
    { [shape |-> "feedback", quality_score |-> Num(n), metrics_numeric |-> TRUE,
       positive |-> 0, negative |-> 0] : n \in {40, 85} }
    \cup
    { [shape |-> "dict", quality_score |-> v, metrics_numeric |-> TRUE,
       positive |-> 0, negative |-> 0] :
         v \in {Num(49), Num(150), NotANumber, Complex(50)} }
    \cup
    { [shape |-> "dict", quality_score |-> Num(49), metrics_numeric |-> FALSE,
       positive |-> 0, negative |-> 0] }
    \cup
    { [shape |-> "text", quality_score |-> Num(0), metrics_numeric |-> TRUE,
       positive |-> c[1], negative |-> c[2]] : c \in TextKeywordCounts }

\* How an agent call made through _execute_agent_with_timeout can end
\* without an output.
AgentFailures == {"raise", "timeout"}

VARIABLES
    pipeline_config,   \* self._pipeline_config: None or a config
    active_agents,     \* keys of self._active_agents
    progress_data,     \* self._progress_data
    init_result,       \* what the last initialize_pipeline returned
    pc,                \* where execute_pipeline is suspended ("idle": no run)
    wave,              \* index of step_group in execution_order
    idx,               \* index of the step in step_group
    current_data,      \* execute_pipeline's current_data
    results,           \* execute_pipeline's results
    group_results,     \* _execute_step_group's results
    step_input,        \* input_data each _execute_single_step call was given
    events,            \* events published under the run's correlation id
    run_result,        \* what the last execute_pipeline returned or raised
    runs,              \* execute_pipeline calls since the last successful initialize
    backend_saves,     \* save_generated_project calls of the run
    loop,              \* execute_iterative_loop's arguments and locals
    snapshot,          \* what get_progress returns, while it returns it
    pipeline_execution_store,  \* routes/pipelines.py: execution_id -> record
    handlers,          \* the coroutine serving each accepted /execute request
    manager_loaded,    \* whether the shared agent_manager_v2 has a config
    streams,           \* the status stream opened for an execution id
    status_response,   \* the last answer of GET /execution/{id}/status
    normalization      \* evaluator outputs normalized on their own, in order

orchVars == <<pipeline_config, active_agents, progress_data, init_result>>

\* execute_pipeline's locals and what the run has published and saved
localVars == <<wave, idx, current_data, results, group_results, step_input,
               events, backend_saves>>

runVars == <<pc, localVars, run_result, runs, loop>>

\* the API layer in front of the shared orchestrator
apiVars == <<pipeline_execution_store, handlers, manager_loaded>>

\* what a run of the orchestrator leaves alone
outerVars == <<apiVars, normalization, streams, status_response>>

vars == <<orchVars, runVars, snapshot, outerVars>>

\* The service has just started: no execution recorded, no request served,
\* the shared orchestrator not initialised; no evaluator output at hand.
OuterIdle ==
    /\ pipeline_execution_store = [id \in {} |-> 0]
    /\ handlers = [id \in {} |-> 0]
    /\ manager_loaded = FALSE
    /\ normalization = None
    /\ streams = [id \in {} |-> 0]
    /\ status_response = None

\* ------------------------------------------------------ progress tracking
\* (completed_steps / total_steps) * 100, kept in whole percent: the floor
\* keeps the order of the values and is 100 exactly when the quotient is 1.
Percent(completed, total) == IF total > 0 THEN (completed * 100) \div total ELSE 0

\* _update_step_progress reads self._progress_data['steps'] and raises
\* KeyError when the key is missing.
HasSteps(p) == "steps" \in DOMAIN p

\* A progress tracking that keeps the failure flag and count of the
\* snapshot it replaces.
InitialProgressKeepsFailures(cfg) ==
    [total_steps |-> Len(StepNames),
     completed_steps |-> 0,
     failed_steps |-> IF HasSteps(progress_data) THEN progress_data.failed_steps ELSE 0,
     progress_percentage |-> 0,
     steps |-> [s \in StepSet |->
                  [status |-> "pending", progress_percentage |-> 0,
                   optional |-> IsOptional(cfg, s)]],
     is_running |-> FALSE,
     is_completed |-> FALSE,
     has_failures |-> IF HasSteps(progress_data) THEN progress_data.has_failures ELSE FALSE,
     current_step_info |-> None]

\* _initialize_progress_tracking (elapsed and estimated times and the log
\* list are clock readings and are left out).
InitialProgress(cfg) ==
    [total_steps |-> Len(StepNames),
     completed_steps |-> 0,
     failed_steps |-> 0,
     progress_percentage |-> 0,
     steps |-> [s \in StepSet |->
                  [status |-> "pending", progress_percentage |-> 0,
                   optional |-> IsOptional(cfg, s)]],
     is_running |-> FALSE,
     is_completed |-> FALSE,
     has_failures |-> FALSE,
     current_step_info |-> None]

\* _update_step_progress; current_step_info refers to the step's entry.
UpdateStepProgress(p, s, status, progress) ==
    [p EXCEPT !.steps[s] = [@ EXCEPT !.status = status, !.progress_percentage = progress],
              !.current_step_info =
                  IF status = "running" THEN [kind |-> "step", name |-> s] ELSE @]

\* _update_overall_progress
UpdateOverallProgress(p, cfg) ==
    IF cfg = None THEN p
    ELSE [p EXCEPT !.progress_percentage = Percent(p.completed_steps, Len(StepNames))]

\* lines 294-297: a step ended well
StepCompletedProgress(p, s, cfg) ==
    LET q == UpdateStepProgress(p, s, "completed", 100) IN
    UpdateOverallProgress([q EXCEPT !.completed_steps = @ + 1], cfg)

\* lines 306-310: a step's agent raised
StepFailedProgress(p, s, cfg) ==
    LET q == UpdateStepProgress(p, s, "failed", 0) IN
    UpdateOverallProgress([q EXCEPT !.failed_steps = @ + 1, !.has_failures = TRUE], cfg)

\* lines 161-164: the run starts
RunStartedProgress(p) ==
    Put(Put(Put(p, "is_running", TRUE), "is_completed", FALSE), "has_failures", FALSE)

\* lines 195-198: mark as completed
RunCompletedProgress(p) ==
    Put(Put(Put(p, "is_running", FALSE), "is_completed", TRUE), "progress_percentage", 100)

\* lines 222-224: mark as failed
RunFailedProgress(p) ==
    Put(Put(p, "is_running", FALSE), "has_failures", TRUE)

\* ------------------------------------------------------------- initialize
\* The loop of initialize_pipeline over the declared steps: the agents
\* created, and whether a required step's agent could not be created.
RECURSIVE CreateAgents(_, _, _, _)
CreateAgents(cfg, failing, i, acc) ==
    IF i > Len(StepNames) THEN [ok |-> TRUE, agents |-> acc]
    ELSE LET s == StepNames[i] IN
         IF IsIterative(cfg, s)
         THEN LET imp == IterativeConfig.improver_agent
                  ev == IterativeConfig.evaluator_agent
                  acc1 == IF imp \in failing THEN acc ELSE acc \cup {imp}
                  acc2 == IF ev \in failing THEN acc1 ELSE acc1 \cup {ev}
              IN  IF imp \in failing /\ ~IsOptional(cfg, s)
                  THEN [ok |-> FALSE, agents |-> acc]
                  ELSE IF ev \in failing /\ ~IsOptional(cfg, s)
                  THEN [ok |-> FALSE, agents |-> acc1]
                  ELSE CreateAgents(cfg, failing, i + 1, acc2)
         ELSE IF s \in failing
              THEN IF ~IsOptional(cfg, s)
                   THEN [ok |-> FALSE, agents |-> acc]
                   ELSE CreateAgents(cfg, failing, i + 1, acc)
              ELSE CreateAgents(cfg, failing, i + 1, acc \cup {s})

\* The locals of a finished run are gone once the next call is made.
NoRun ==
    /\ pc' = "idle"
    /\ wave' = 1
    /\ idx' = 1
    /\ current_data' = None
    /\ results' = EmptyDict
    /\ group_results' = EmptyDict
    /\ step_input' = EmptyDict
    /\ events' = <<>>
    /\ backend_saves' = 0
    /\ loop' = None

\* initialize_pipeline(pipeline_name), when agent_factory.create_agent raises
\* for the keys in failing.
InitializePipeline(name, failing) ==
    /\ pc = "idle"
    /\ IF name = UnknownPipeline
       THEN /\ init_result' = "failed"
            /\ UNCHANGED <<pipeline_config, active_agents, progress_data, runs>>
       ELSE LET r == CreateAgents(name, failing, 1, {}) IN
            /\ pipeline_config' = name
            /\ active_agents' = r.agents
            /\ progress_data' = IF r.ok THEN InitialProgress(name) ELSE progress_data
            /\ init_result' = IF r.ok THEN "ok" ELSE "failed"
            /\ runs' = IF r.ok THEN 0 ELSE runs
    /\ NoRun
    /\ run_result' = None
    /\ snapshot' = None
    /\ UNCHANGED outerVars

\* clear_agents
ClearAgents ==
    /\ pc = "idle"
    /\ pipeline_config' = None
    /\ active_agents' = {}
    /\ progress_data' = EmptyDict
    /\ init_result' = "none"
    /\ NoRun
    /\ run_result' = None
    /\ UNCHANGED runs
    /\ snapshot' = None
    /\ UNCHANGED outerVars

\* The event loop's thread is inside agent.process (line 292), a plain call.
EventLoopBlocked == pc = "agent_processing"

\* get_progress: a copy of the progress data, served by a handler of the
\* event loop, whenever the loop is free.
GetProgress ==
    /\ ~EventLoopBlocked
    /\ snapshot' = progress_data
    /\ UNCHANGED <<orchVars, runVars, outerVars>>

\* ---------------------------------------------------------------- execute
\* The part of the run that the code between two awaits reads and writes.
RunState ==
    [pc |-> pc, wave |-> wave, idx |-> idx, current_data |-> current_data,
     results |-> results, group_results |-> group_results,
     step_input |-> step_input, progress |-> progress_data, events |-> events]

\* The step execute_pipeline is at.
CurStep == GetExecutionOrder(pipeline_config)[wave][idx]

\* _execute_single_step raises before it publishes anything: the step's agent
\* (line 281), improver (line 334) or evaluator (line 336) is not active, or
\* the progress data has no 'steps' (KeyError in _update_step_progress, raised
\* again from the except block).
StepRaisesAtOnce(cfg, s, agents, p) ==
    \/ IF IsIterative(cfg, s)
       THEN \/ IterativeConfig.improver_agent \notin agents
            \/ IterativeConfig.evaluator_agent \notin agents
       ELSE s \notin agents
    \/ ~HasSteps(p)

\* execute_pipeline's except block (lines 219-232), up to the await of the
\* PipelineFailed event.
PipelineFailed(st) ==
    [st EXCEPT !.pc = "pipeline_failed",
               !.progress = RunFailedProgress(@),
               !.events = Append(@, Event("PipelineFailed", "agent_manager_v2"))]

\* lines 195-206: every group is done, up to the await of PipelineCompleted.
PipelineCompleted(st) ==
    [st EXCEPT !.pc = "pipeline_completed",
               !.progress = RunCompletedProgress(@),
               !.events = Append(@, Event("PipelineCompleted", "agent_manager_v2"))]

\* A fan-in that feeds the group's first result to the next group.
GroupSettledFeedsFirst(st, group) ==
    [st EXCEPT !.wave = @ + 1,
               !.idx = 1,
               !.results = Update(@, st.group_results),
               !.group_results = EmptyDict,
               !.current_data = st.group_results[group[1]]]

\* lines 188-193: a group has settled; its last result feeds the next group.
GroupSettled(st, group) ==
    [st EXCEPT !.wave = @ + 1,
               !.idx = 1,
               !.results = Update(@, st.group_results),
               !.group_results = EmptyDict,
               !.current_data = IF DOMAIN st.group_results # {}
                                THEN st.group_results[group[Len(group)]]
                                ELSE @]

\* lines 283-288 (340-344 for an iterative step): the step is marked running,
\* up to the await of AgentStarted.
StepStarted(st, s) ==
    [st EXCEPT !.pc = "agent_started",
               !.progress = UpdateStepProgress(@, s, "running", 0),
               !.events = Append(@, Event("AgentStarted", s))]

RECURSIVE RunFrom(_)
RECURSIVE StepRaised(_, _)

\* execute_pipeline and _execute_step_group from position (wave, idx) up to
\* the next await: the groups in order, the steps of a group in order (the
\* coroutines of a group are awaited one after the other).
RunFrom(st) ==
    LET order == GetExecutionOrder(pipeline_config) IN
    IF st.wave > Len(order) THEN PipelineCompleted(st)
    ELSE LET group == order[st.wave] IN
         IF st.idx > Len(group) THEN RunFrom(GroupSettled(st, group))
         ELSE LET s == group[st.idx]
                  called == [st EXCEPT !.step_input = Put(@, s, st.current_data)]
              IN  IF StepRaisesAtOnce(pipeline_config, s, active_agents, st.progress)
                  THEN StepRaised(called, s)
                  ELSE StepStarted(called, s)

\* A step's result reaches _execute_step_group (lines 248-249, 260-261).
StepReturned(st, s, value) ==
    RunFrom([st EXCEPT !.group_results = Put(@, s, value), !.idx = @ + 1])

\* A group that lets a step's exception through whatever its size.
StepRaisedEndsRun(st, s) == PipelineFailed(st)

\* An exception leaves _execute_single_step: a group of one step lets it
\* through to execute_pipeline (line 248), a larger group records it as the
\* step's result and goes on (lines 262-264).
StepRaised(st, s) ==
    IF Len(GetExecutionOrder(pipeline_config)[st.wave]) = 1
    THEN PipelineFailed(st)
    ELSE StepReturned(st, s, GroupErrorPayload(s))

\* A step of the run: the variables RunState gathers are set from the run
\* state reached; the orchestrator's other fields stay.
SetRun(st) ==
    /\ pc' = st.pc
    /\ wave' = st.wave
    /\ idx' = st.idx
    /\ current_data' = st.current_data
    /\ results' = st.results
    /\ group_results' = st.group_results
    /\ step_input' = st.step_input
    /\ progress_data' = st.progress
    /\ events' = st.events
    /\ UNCHANGED <<pipeline_config, active_agents, init_result, run_result, runs,
                   backend_saves>>
    /\ snapshot' = None
    /\ UNCHANGED outerVars

\* A step of the run outside the loop.
RunStep(st) == SetRun(st) /\ UNCHANGED loop

\* An execute_pipeline that looks for the configuration only after it has
\* marked the run as started.
ExecuteChecksLate ==
    /\ pc = "idle"
    /\ pipeline_config = None
    /\ run_result' = [kind |-> "raised", error |-> "not initialized"]
    /\ NoRun
    /\ progress_data' = RunStartedProgress(progress_data)
    /\ UNCHANGED <<pipeline_config, active_agents, init_result, runs>>
    /\ snapshot' = None
    /\ UNCHANGED outerVars

\* execute_pipeline called with no configuration loaded: ValueError.
ExecuteNotInitialized ==
    /\ pc = "idle"
    /\ pipeline_config = None
    /\ run_result' = [kind |-> "raised", error |-> "not initialized"]
    /\ NoRun
    /\ UNCHANGED <<orchVars, runs>>
    /\ snapshot' = None
    /\ UNCHANGED outerVars

\* execute_pipeline, lines 155-175: up to the await of PipelineStarted.
ExecuteStart ==
    /\ pc = "idle"
    /\ pipeline_config # None
    /\ runs < MaxRuns
    /\ runs' = runs + 1
    /\ pc' = "pipeline_started"
    /\ wave' = 1
    /\ idx' = 1
    /\ current_data' = UserInput
    /\ results' = EmptyDict
    /\ group_results' = EmptyDict
    /\ step_input' = EmptyDict
    /\ progress_data' = RunStartedProgress(progress_data)
    /\ events' = <<Event("PipelineStarted", "agent_manager_v2")>>
    /\ backend_saves' = 0
    /\ run_result' = None
    /\ loop' = None
    /\ UNCHANGED <<pipeline_config, active_agents, init_result>>
    /\ snapshot' = None
    /\ UNCHANGED outerVars

\* lines 177-187: the execution order is read and the first step dispatched.
ExecuteFirstStep ==
    /\ pc = "pipeline_started"
    /\ RunStep(RunFrom(RunState))

\* lines 290-297: the agent returned; the step is completed.
AgentReturned(st, cfg, s) ==
    [st EXCEPT !.pc = "agent_completed",
               !.progress = StepCompletedProgress(@, s, cfg),
               !.events = Append(@, Event("AgentCompleted", s))]

\* lines 305-313: the agent raised; the step is failed.
AgentRaised(st, cfg, s) ==
    [st EXCEPT !.pc = "agent_failed",
               !.progress = StepFailedProgress(@, s, cfg),
               !.events = Append(@, Event("AgentFailed", s))]

\* lines 288-292: the AgentStarted event is out and agent.process is called.
AgentProcesses ==
    /\ pc = "agent_started"
    /\ ~IsIterative(pipeline_config, CurStep)
    /\ pc' = "agent_processing"
    /\ UNCHANGED <<orchVars, localVars, run_result, runs, loop>>
    /\ snapshot' = None
    /\ UNCHANGED outerVars

\* lines 292-300: agent.process returns, up to the await of AgentCompleted.
AgentReturns ==
    /\ pc = "agent_processing"
    /\ ~IsIterative(pipeline_config, CurStep)
    /\ RunStep(AgentReturned(RunState, pipeline_config, CurStep))

\* lines 305-313: agent.process raises, up to the await of AgentFailed.
AgentRaises ==
    /\ pc = "agent_processing"
    /\ ~IsIterative(pipeline_config, CurStep)
    /\ RunStep(AgentRaised(RunState, pipeline_config, CurStep))

\* lines 302-303: the step returns its result and the run goes on.
StepCompletes ==
    /\ pc = "agent_completed"
    /\ RunStep(StepReturned(RunState, CurStep, Output(CurStep)))

\* A step whose failure raises whether it is optional or not.
FailedStepAlwaysRaises(st, cfg, s) == StepRaised(st, s)

\* lines 315-320: an optional step returns an error payload, a required one
\* raises.
FailedStepResult(st, cfg, s) ==
    IF IsOptional(cfg, s)
    THEN StepReturned(st, s, OptionalErrorPayload(s))
    ELSE StepRaised(st, s)

StepFails ==
    /\ pc = "agent_failed"
    /\ RunStep(FailedStepResult(RunState, pipeline_config, CurStep))

\* lines 212-217: what a run that went through returns.
SuccessResult == [kind |-> "result", success |-> TRUE, results |-> results]

\* lines 234-239: what a failed run returns.
FailureResult == [kind |-> "result", success |-> FALSE, error |-> "step failed"]

\* execute_pipeline returns.
Return(value) ==
    /\ pc' = "idle"
    /\ run_result' = value
    /\ UNCHANGED <<orchVars, localVars, runs, loop>>
    /\ snapshot' = None
    /\ UNCHANGED outerVars

\* _save_project_to_backend, lines 543-548: the backend is unhealthy or the
\* health check raises, the save is skipped and execute_pipeline returns.
BackendUnhealthy ==
    /\ pc = "pipeline_completed"
    /\ Return(SuccessResult)

\* lines 550-564: the backend is healthy, up to the await of the save.
BackendHealthy ==
    /\ pc = "pipeline_completed"
    /\ pc' = "saving"
    /\ backend_saves' = backend_saves + 1
    /\ UNCHANGED <<orchVars, wave, idx, current_data, results, group_results,
                   step_input, events, run_result, runs, loop>>
    /\ snapshot' = None
    /\ UNCHANGED outerVars

\* lines 566-574 and 211-217: whatever the save answers (or raises) is
\* logged, and execute_pipeline returns the results.
SaveDone ==
    /\ pc = "saving"
    /\ Return(SuccessResult)

\* lines 234-239: the failed run returns its error.
ExecuteReturnsFailure ==
    /\ pc = "pipeline_failed"
    /\ Return(FailureResult)

\* --------------------------------------------- execute_iterative_loop
\* max(0.0, min(100.0, x))
Clamp(x) == IF x < 0 THEN 0 ELSE IF x > 100 THEN 100 ELSE x

\* _parse_text_feedback's score: 70, plus 5 for each positive keyword found,
\* minus 10 for each negative one, clamped.
TextScore(positive, negative) == Clamp(70 + (positive * 5) - (negative * 10))

\* _parse_evaluator_output: the feedback of an evaluator output. A dict's
\* quality_score is taken as it is.
ParseEvaluatorOutput(out) ==
    IF out.shape = "text"
    THEN [quality_score |-> Num(TextScore(out.positive, out.negative)),
          metrics_numeric |-> TRUE]
    ELSE [quality_score |-> out.quality_score, metrics_numeric |-> out.metrics_numeric]

\* A comparison that asks for a score above the threshold.
MeetsThresholdStrict(feedback, threshold) == feedback.quality_score.value > threshold

\* StructuredFeedback.meets_threshold
MeetsThreshold(feedback, threshold) == feedback.quality_score.value >= threshold

\* A comparison with the threshold that raises: a complex number has no >=.
CompareRaises(feedback) == feedback.quality_score.type = "complex"

\* f"{feedback.quality_score:.1f}" (line 147) raises for a value that has no
\* such format.
LogScoreRaises(feedback) == feedback.quality_score.type = "str"

\* FeedbackProcessor.format_feedback_for_agent formats every sub-metric with
\* :.1f and raises for one that is no number.
FormatFeedbackRaises(feedback) == ~feedback.metrics_numeric

\* A next input that wraps the input of the iteration before it.
NextInputWrapsCurrent(L, feedback) ==
    [kind |-> "revision", original_request |-> L.current_input,
     current_code |-> L.improver_output,
     feedback |-> [kind |-> "formatted", of |-> feedback],
     iteration |-> L.iteration + 1]

\* lines 157-162: the improver's input of the next iteration.
NextInput(L, feedback) ==
    [kind |-> "revision", original_request |-> L.initial_input,
     current_code |-> L.improver_output,
     feedback |-> [kind |-> "formatted", of |-> feedback],
     iteration |-> L.iteration + 1]

\* An IterationResult.
IterationResult(k, input, output, feedback, success, error) ==
    [iteration_number |-> k, input_data |-> input, output_data |-> output,
     feedback |-> feedback, success |-> success, error_message |-> error]

\* lines 51-57: the loop's locals at its start.
LoopStart(loop_name, initial_input, max_iterations, quality_threshold, correlation_id) ==
    [kind |-> "loop",
     loop_name |-> loop_name,
     correlation_id |-> correlation_id,
     initial_input |-> initial_input,
     max_iterations |-> max_iterations,
     quality_threshold |-> quality_threshold,
     iteration |-> 0,
     iterations |-> <<>>,
     improvement_trend |-> <<>>,
     current_input |-> initial_input,
     final_output |-> None,
     final_quality_score |-> Num(0),
     threshold_met |-> FALSE,
     improver_output |-> None,
     calls |-> <<>>,
     abandoned |-> {},
     result |-> None]

\* IterativeLoopResult.get_quality_improvement subtracts the first score of
\* the trend from the last one and raises when one of them is a string or
\* None (feedback.py lines 153-157).
QualityImprovementRaises(res) ==
    /\ Len(res.improvement_trend) >= 2
    /\ \/ res.improvement_trend[1].type = "str"
       \/ res.improvement_trend[Len(res.improvement_trend)].type = "str"

\* An improvement measured against the iteration before the last one.
QualityImprovementOverPrevious(res) ==
    LET trend == res.improvement_trend
        n == Len(trend)
    IN  IF n < 2 THEN Num(0)
        ELSE [type |-> IF "complex" \in {trend[n - 1].type, trend[n].type}
                       THEN "complex" ELSE "number",
              value |-> trend[n].value - trend[n - 1].value]

\* IterativeLoopResult.get_quality_improvement (feedback.py lines 153-157),
\* when it does not raise: 0.0 for a trend of fewer than two scores, else
\* the last score minus the first one.
GetQualityImprovement(res) ==
    LET trend == res.improvement_trend
        n == Len(trend)
    IN  IF n < 2 THEN Num(0)
        ELSE [type |-> IF "complex" \in {trend[1].type, trend[n].type}
                       THEN "complex" ELSE "number",
              value |-> trend[n].value - trend[1].value]

\* IterativeLoopResult.to_dict raises when the to_dict of an iteration's
\* feedback sums sub-metrics that are no numbers (feedback.py lines 67, 78,
\* 106, 134, 167) or when get_quality_improvement raises (line 171).
ToDictRaises(res) ==
    \/ \E i \in 1..Len(res.iterations) :
           /\ res.iterations[i].feedback # None
           /\ ~res.iterations[i].feedback.metrics_numeric
    \/ QualityImprovementRaises(res)

\* f"{final_quality_score:.1f}" (line 205) raises for a value that has no
\* such format.
FinalLogRaises(res) == res.final_quality_score.type = "str"

\* lines 204-207: the loop returns its result, unless the log line raises.
LoopReturn(L) ==
    [pc |-> IF FinalLogRaises(L.result) THEN "loop_raised" ELSE "loop_returned",
     loop |-> L]

\* lines 176-207: the IterativeLoopResult is built; with a correlation id,
\* up to the await of the loop's completed event, unless to_dict (line 198)
\* raises; with none, up to the return.
LoopFinished(L) ==
    LET res == [kind |-> "loop_result",
                total_iterations |-> Len(L.iterations),
                final_quality_score |-> L.final_quality_score,
                quality_threshold |-> L.quality_threshold,
                threshold_met |-> L.threshold_met,
                iterations |-> L.iterations,
                final_output |-> L.final_output,
                improvement_trend |-> L.improvement_trend]
        built == [L EXCEPT !.result = res]
    IN  IF L.correlation_id
        THEN [pc |-> IF ToDictRaises(res) THEN "loop_raised" ELSE "loop_completed",
              loop |-> built]
        ELSE LoopReturn(built)

\* lines 74-84: the next iteration starts, up to the await of the improver.
ImproverCalled(L) ==
    [pc |-> "improver",
     loop |-> [L EXCEPT !.iteration = @ + 1, !.improver_output = None]]

\* A loop that records the improver's failure and goes on to the next
\* iteration instead of ending.
ImproverFailedContinues(L, how) ==
    LET rec == [L EXCEPT !.iterations = Append(@,
                   IterationResult(L.iteration, L.current_input, None, None, FALSE,
                                   [kind |-> "error", agent |-> "improver", how |-> how]))]
    IN  IF L.iteration < L.max_iterations THEN ImproverCalled(rec) ELSE LoopFinished(rec)

\* lines 86-96: the improver ended without an output.
ImproverFailed(L, how) ==
    LoopFinished([L EXCEPT !.iterations = Append(@,
        IterationResult(L.iteration, L.current_input, None, None, FALSE,
                        [kind |-> "error", agent |-> "improver", how |-> how]))])

\* lines 98-110: the improver returned, up to the await of the evaluator.
ImproverSucceeded(L) ==
    [pc |-> "evaluator",
     loop |-> [L EXCEPT !.improver_output = Code(L.iteration)]]

\* A loop that records the evaluator's failure without the improver's output.
EvaluatorFailedDropsOutput(L, how) ==
    LoopFinished([L EXCEPT !.iterations = Append(@,
        IterationResult(L.iteration, L.current_input, None, None, FALSE,
                        [kind |-> "error", agent |-> "evaluator", how |-> how]))])

\* lines 112-122: the evaluator ended without an output.
EvaluatorFailed(L, how) ==
    LoopFinished([L EXCEPT !.iterations = Append(@,
        IterationResult(L.iteration, L.current_input, L.improver_output, None, FALSE,
                        [kind |-> "error", agent |-> "evaluator", how |-> how]))])

\* lines 164-174: an exception inside the iteration is recorded as a failed
\* iteration and ends the loop.
IterationRaised(L) ==
    LoopFinished([L EXCEPT !.iterations = Append(@,
        IterationResult(L.iteration, L.current_input, None, None, FALSE,
                        [kind |-> "error", agent |-> "none", how |-> "exception"]))])

\* lines 131-145: the successful iteration is recorded.
IterationRecorded(L, feedback) ==
    [L EXCEPT !.iterations = Append(@,
                  IterationResult(L.iteration, L.current_input, L.improver_output,
                                  feedback, TRUE, None)),
              !.improvement_trend = Append(@, feedback.quality_score),
              !.final_output = L.improver_output,
              !.final_quality_score = feedback.quality_score]

\* A loop that gives up one iteration early.
IterationsRemainOffByOne(L) == L.iteration + 1 < L.max_iterations

\* lines 74 and 156: an iteration remains after this one.
IterationsRemain(L) == L.iteration < L.max_iterations

\* A loop that goes round once more than max_iterations allows.
EvaluatorSucceededOnceMore(L, out) ==
    LET feedback == ParseEvaluatorOutput(out)
        rec == IterationRecorded(L, feedback)
    IN  IF LogScoreRaises(feedback) \/ CompareRaises(feedback) THEN IterationRaised(rec)
        ELSE IF MeetsThreshold(feedback, L.quality_threshold)
        THEN LoopFinished([rec EXCEPT !.threshold_met = TRUE])
        ELSE IF L.iteration <= L.max_iterations
        THEN IF FormatFeedbackRaises(feedback) THEN IterationRaised(rec)
             ELSE ImproverCalled([rec EXCEPT !.current_input = NextInput(L, feedback)])
        ELSE LoopFinished(rec)

\* lines 124-162: the evaluator returned out.
EvaluatorSucceeded(L, out) ==
    LET feedback == ParseEvaluatorOutput(out)
        rec == IterationRecorded(L, feedback)
    IN  IF LogScoreRaises(feedback) \/ CompareRaises(feedback) THEN IterationRaised(rec)
        ELSE IF MeetsThreshold(feedback, L.quality_threshold)
        THEN LoopFinished([rec EXCEPT !.threshold_met = TRUE])
        ELSE IF IterationsRemain(L)
        THEN IF FormatFeedbackRaises(feedback) THEN IterationRaised(rec)
             ELSE ImproverCalled([rec EXCEPT !.current_input = NextInput(L, feedback)])
        ELSE LoopFinished(rec)

\* A step of the loop: only the loop, its events and the place change.
LoopStep(r, published) ==
    /\ pc' = r.pc
    /\ loop' = r.loop
    /\ events' = events \o published
    /\ UNCHANGED <<orchVars, wave, idx, current_data, results, group_results,
                   step_input, backend_saves, run_result, runs>>
    /\ snapshot' = None
    /\ UNCHANGED outerVars

LoopCompletedEvent == <<Event("PipelineCompleted", "iterative_executor")>>

\* lines 192-202: the completed event is published when the loop gets there.
PublishedAt(r) == IF r.pc = "loop_completed" THEN LoopCompletedEvent ELSE <<>>

\* The loop was called by _execute_iterative_step, under the step's name.
CalledByStep(L) == L.loop_name \in StepSet

\* _execute_iterative_step's except block (agent_manager_v2.py lines
\* 405-418): the step is marked failed, up to the await of AgentFailed.
IterativeExcept(st, cfg, s) ==
    [st EXCEPT !.pc = "iterative_raised",
               !.progress = StepFailedProgress(@, s, cfg),
               !.events = Append(@, Event("AgentFailed", s))]

\* The loop goes on to r; an exception that leaves a loop called by a step
\* is caught by the step's except block at once.
LoopMoves(r) ==
    IF r.pc = "loop_raised" /\ CalledByStep(r.loop)
    THEN SetRun(IterativeExcept(RunState, pipeline_config, CurStep)) /\ loop' = r.loop
    ELSE LoopStep(r, PublishedAt(r))

\* The agent calls the loop has made, each with how it ended ("ok", "raise"
\* or "timeout"): what the agents themselves would have logged. A call that
\* timed out is abandoned: wait_for cancels the task that waits for it
\* (lines 221-224) while agent.process goes on in its executor thread
\* (line 265).
CallEnded(L, agent, outcome) ==
    [L EXCEPT !.calls = Append(@, [agent |-> agent, iteration |-> L.iteration,
                                   outcome |-> outcome]),
              !.abandoned = IF outcome = "timeout"
                            THEN @ \cup {[agent |-> agent, iteration |-> L.iteration]}
                            ELSE @]

\* What the agent.process of the abandoned call c returns in the end.
LateOutput(c) == [kind |-> "late", agent |-> c.agent, iteration |-> c.iteration]

\* A loop that takes the output of an abandoned call as its final output.
AbandonedReturnedIsUsed(L, c) ==
    [L EXCEPT !.abandoned = @ \ {c},
              !.final_output = LateOutput(c),
              !.result = IF @ = None THEN @
                         ELSE [@ EXCEPT !.final_output = LateOutput(c)]]

\* The thread of the abandoned call c ends: its output goes to a future
\* that nothing waits for any more.
AbandonedReturned(L, c) == [L EXCEPT !.abandoned = @ \ {c}]

\* line 74: after the loop's started event the first iteration begins.
LoopFirstIteration ==
    /\ pc = "loop_started"
    /\ LoopStep(ImproverCalled(loop), <<>>)

\* The improver's call ends: with an output, by raising, or by timing out.
ImproverReturns ==
    /\ pc = "improver"
    /\ \/ LoopMoves(ImproverSucceeded(CallEnded(loop, "improver", "ok")))
       \/ \E how \in AgentFailures :
              LoopMoves(ImproverFailed(CallEnded(loop, "improver", how), how))

\* The evaluator's call ends: with an output, by raising, or by timing out.
EvaluatorReturns ==
    /\ pc = "evaluator"
    /\ \/ \E out \in EvaluatorOutputs :
              LoopMoves(EvaluatorSucceeded(CallEnded(loop, "evaluator", "ok"), out))
       \/ \E how \in AgentFailures :
              LoopMoves(EvaluatorFailed(CallEnded(loop, "evaluator", how), how))

\* agent.process of an abandoned call returns in its thread, while the
\* loop's record is still there.
AbandonedCallReturns ==
    /\ loop.kind = "loop"
    /\ \E c \in loop.abandoned : loop' = AbandonedReturned(loop, c)
    /\ UNCHANGED <<orchVars, pc, localVars, run_result, runs>>
    /\ snapshot' = None
    /\ UNCHANGED outerVars

\* lines 204-207: the loop returns its result to a caller that is no step,
\* or raises.
LoopReturns ==
    /\ pc = "loop_completed"
    /\ ~CalledByStep(loop)
    /\ LoopStep(LoopReturn(loop), <<>>)

\* ------------------------------------------------ _execute_iterative_step
\* What a completed iterative step returns (lines 378-384).
IterativeResult(s, res) ==
    [kind |-> "iterative", by |-> s, output |-> res.final_output,
     quality_score |-> res.final_quality_score,
     iterations_completed |-> res.total_iterations,
     threshold_met |-> res.threshold_met]

\* What an optional iterative step returns when its loop gave no output
\* (line 401).
IterativeErrorPayload(s, res) ==
    [kind |-> "error", by |-> s, optional |-> TRUE,
     total_iterations |-> res.total_iterations]

\* lines 346-357 and 51-72: the loop is called with the step's input, up to
\* the await of the loop's started event.
IterativeLoopBegins ==
    /\ pc = "agent_started"
    /\ IsIterative(pipeline_config, CurStep)
    /\ LoopStep([pc |-> "loop_started",
                 loop |-> LoopStart(CurStep, step_input[CurStep],
                                    IterativeConfig.max_iterations,
                                    IterativeConfig.quality_threshold, TRUE)],
                <<Event("PipelineStarted", "iterative_executor")>>)

\* line 360: the loop met the threshold or left an output.
LoopGaveOutput(res) == res.threshold_met \/ res.final_output # None

\* lines 359-373: the step is completed, up to the await of AgentCompleted,
\* unless to_dict (line 369) raises and the except block (lines 405-418)
\* marks the step failed, up to the await of AgentFailed;
\* lines 385-397: the step is failed, up to the await of AgentFailed.
IterativeLoopResult(st, s, res) ==
    IF LoopGaveOutput(res)
    THEN LET done == [UpdateStepProgress(st.progress, s, "completed", 100)
                         EXCEPT !.completed_steps = @ + 1]
         IN  IF ToDictRaises(res)
             THEN IterativeExcept([st EXCEPT !.progress = done], pipeline_config, s)
             ELSE [st EXCEPT !.pc = "iterative_completed",
                             !.progress = done,
                             !.events = Append(@, Event("AgentCompleted", s))]
    ELSE [st EXCEPT !.pc = "iterative_failed",
                    !.progress = [UpdateStepProgress(@, s, "failed", 0)
                                     EXCEPT !.failed_steps = @ + 1,
                                            !.has_failures = TRUE],
                    !.events = Append(@, Event("AgentFailed", s))]

\* The loop returns to the step (iterative_executor.py lines 204-207), or
\* its last log line raises and the step's except block runs.
IterativeLoopReturns ==
    /\ pc = "loop_completed"
    /\ CalledByStep(loop)
    /\ RunStep(IF LoopReturn(loop).pc = "loop_raised"
               THEN IterativeExcept(RunState, pipeline_config, CurStep)
               ELSE IterativeLoopResult(RunState, CurStep, loop.result))

\* line 428: the finally block.
Finally(st, cfg) == [st EXCEPT !.progress = UpdateOverallProgress(@, cfg)]

\* lines 378-384 and 428: the step returns the loop's output.
IterativeStepCompletes ==
    /\ pc = "iterative_completed"
    /\ SetRun(StepReturned(Finally(RunState, pipeline_config), CurStep,
                           IterativeResult(CurStep, loop.result)))
    /\ loop' = None

\* lines 399-403: an optional step returns an error payload; a required one
\* raises inside the try block, and the except block (lines 405-418) marks
\* the step failed once more, up to the await of a second AgentFailed.
IterativeFailedResult(st, cfg, s, res) ==
    IF IsOptional(cfg, s)
    THEN StepReturned(Finally(st, cfg), s, IterativeErrorPayload(s, res))
    ELSE IterativeExcept(st, cfg, s)

IterativeStepFails ==
    /\ pc = "iterative_failed"
    /\ SetRun(IterativeFailedResult(RunState, pipeline_config, CurStep, loop.result))
    /\ loop' = IF IsOptional(pipeline_config, CurStep) THEN None ELSE loop

\* lines 420-428: the except block returns an optional step's error payload
\* and lets a required step's exception go on to the caller.
IterativeRaisedResult(st, cfg, s) ==
    IF IsOptional(cfg, s)
    THEN StepReturned(Finally(st, cfg), s, OptionalErrorPayload(s))
    ELSE StepRaised(Finally(st, cfg), s)

IterativeStepRaises ==
    /\ pc = "iterative_raised"
    /\ SetRun(IterativeRaisedResult(RunState, pipeline_config, CurStep))
    /\ loop' = None

\* ---------------------------------------------------------- specification
Init ==
    /\ pipeline_config = None
    /\ active_agents = {}
    /\ progress_data = EmptyDict
    /\ init_result = "none"
    /\ pc = "idle"
    /\ wave = 1
    /\ idx = 1
    /\ current_data = None
    /\ results = EmptyDict
    /\ group_results = EmptyDict
    /\ step_input = EmptyDict
    /\ events = <<>>
    /\ run_result = None
    /\ runs = 0
    /\ backend_saves = 0
    /\ loop = None
    /\ snapshot = None
    /\ OuterIdle

Initialize ==
    \/ InitializePipeline(UnknownPipeline, {})
    \/ \E name \in PipelineConfigs :
           \E failing \in {{}} \cup {{k} : k \in KeysOf(name)} :
               InitializePipeline(name, failing)

Next ==
    \/ Initialize
    \/ ClearAgents
    \/ GetProgress
    \/ ExecuteNotInitialized
    \/ ExecuteStart
    \/ ExecuteFirstStep
    \/ AgentProcesses
    \/ AgentReturns
    \/ AgentRaises
    \/ StepCompletes
    \/ StepFails
    \/ IterativeLoopBegins
    \/ LoopFirstIteration
    \/ ImproverReturns
    \/ EvaluatorReturns
    \/ AbandonedCallReturns
    \/ IterativeLoopReturns
    \/ IterativeStepCompletes
    \/ IterativeStepFails
    \/ IterativeStepRaises
    \/ BackendUnhealthy
    \/ BackendHealthy
    \/ SaveDone
    \/ ExecuteReturnsFailure

Spec == Init /\ [][Next]_vars

\* execute_iterative_loop called on its own, for every max_iterations and
\* quality_threshold: with a correlation id, from the await of its started
\* event on; with none, from the await of the first improver call on.
LoopInit ==
    /\ pipeline_config = None
    /\ active_agents = {}
    /\ progress_data = EmptyDict
    /\ init_result = "none"
    /\ wave = 1
    /\ idx = 1
    /\ current_data = None
    /\ results = EmptyDict
    /\ group_results = EmptyDict
    /\ step_input = EmptyDict
    /\ run_result = None
    /\ runs = 0
    /\ backend_saves = 0
    /\ \E m \in 1..MaxIterations : \E q \in Thresholds :
           \/ /\ pc = "loop_started"
              /\ loop = LoopStart("loop", UserInput, m, q, TRUE)
              /\ events = <<Event("PipelineStarted", "iterative_executor")>>
           \/ /\ pc = "improver"
              /\ loop = ImproverCalled(LoopStart("loop", UserInput, m, q, FALSE)).loop
              /\ events = <<>>
    /\ snapshot = None
    /\ OuterIdle

LoopNext ==
    \/ LoopFirstIteration
    \/ ImproverReturns
    \/ EvaluatorReturns
    \/ AbandonedCallReturns
    \/ LoopReturns

LoopSpec == LoopInit /\ [][LoopNext]_vars

\* An agent call made through _execute_agent_with_timeout ends when the
\* agent returns or raises, and at the latest when wait_for's timeout lapses
\* (iterative_executor.py lines 221-224).
BoundedCalls == ImproverReturns \/ EvaluatorReturns

\* The loop on its own with the scheduling the code relies on: a coroutine
\* whose await is over is resumed, and a call made through
\* _execute_agent_with_timeout ends at the latest when wait_for's timeout
\* lapses (lines 221-224). Nothing makes the thread of an abandoned call
\* return.
LoopResumes == LoopFirstIteration \/ LoopReturns

LoopFairSpec ==
    LoopInit /\ [][LoopNext]_vars /\ WF_vars(LoopResumes) /\ WF_vars(BoundedCalls)

\* execute_pipeline calls on a service that initialize_pipeline has just
\* set up, with the scheduling the code relies on.
RunInit ==
    /\ \E name \in PipelineConfigs :
           \E failing \in {{}} \cup {{k} : k \in KeysOf(name)} :
               LET r == CreateAgents(name, failing, 1, {}) IN
               /\ r.ok
               /\ pipeline_config = name
               /\ active_agents = r.agents
               /\ progress_data = InitialProgress(name)
    /\ init_result = "ok"
    /\ pc = "idle"
    /\ wave = 1
    /\ idx = 1
    /\ current_data = None
    /\ results = EmptyDict
    /\ group_results = EmptyDict
    /\ step_input = EmptyDict
    /\ events = <<>>
    /\ run_result = None
    /\ runs = 0
    /\ backend_saves = 0
    /\ loop = None
    /\ snapshot = None
    /\ OuterIdle

\* What the event loop does by itself once execute_pipeline is called: a
\* coroutine whose await is over is resumed.
Resumes ==
    \/ ExecuteFirstStep
    \/ AgentProcesses
    \/ StepCompletes
    \/ StepFails
    \/ IterativeLoopBegins
    \/ LoopFirstIteration
    \/ IterativeLoopReturns
    \/ IterativeStepCompletes
    \/ IterativeStepFails
    \/ IterativeStepRaises
    \/ ExecuteReturnsFailure

\* The backend client's session has a total timeout (backend_client.py
\* lines 22-23, 36-37): the health check and the save end.
BackendAnswers == BackendUnhealthy \/ BackendHealthy \/ SaveDone

RunNext ==
    \/ ExecuteStart
    \/ Resumes
    \/ BoundedCalls
    \/ BackendAnswers
    \/ AgentReturns
    \/ AgentRaises
    \/ AbandonedCallReturns

\* agent.process of a regular step (agent_manager_v2.py line 292) is under
\* no timeout: nothing makes AgentReturns or AgentRaises happen.
Fairness ==
    /\ WF_vars(Resumes)
    /\ WF_vars(BoundedCalls)
    /\ WF_vars(BackendAnswers)

FairSpec == RunInit /\ [][RunNext]_vars /\ Fairness

\* ---------------------------------------------------------------- API layer
\* api/routes/pipelines.py in front of the one shared agent_manager_v2. A
\* run is followed here only as far as the routes can tell: it is inside
\* execute_pipeline, its steps end well or not, the orchestrator asks the
\* backend and returns, the route writes the execution record.

\* uuid4: an id no execution has had
FreshId == Cardinality(DOMAIN pipeline_execution_store) + 1

\* How the external store can answer the health check and a save
\* (agent_manager_v2.py lines 545-571, pipelines.py lines 483-509).
HealthAnswers == {"healthy", "unhealthy", "raises"}

SaveAnswers == {"saved", "error", "raises", "timeout"}

\* What initialize_pipeline can do with the pipeline named in a request:
\* succeed, or fail on a required agent after the configuration is stored.
InitializeOutcomes == {"ok", "agent_failed"}

\* the record written when an execution is accepted (lines 63-72)
NewExecution ==
    [status |-> "running", completed_at |-> FALSE, result |-> None, error |-> FALSE]

\* execute_pipeline's return value, as far as the routes read it
\* (agent_manager_v2.py lines 212-217 and 234-239)
RunResult(ok) == [kind |-> "result", success |-> ok]

\* What execute_pipeline returns once _save_project_to_backend is over: the
\* successful result is built from self._pipeline_config.name (line 215),
\* which raises into the except clause (lines 219-239) if the shared
\* orchestrator has been cleared in the meantime.
ResultAfterSave == RunResult(manager_loaded)

\* An update that takes every run that returned for a completed one.
RecordResultCompleted(rec, result) ==
    [rec EXCEPT !.status = "completed",
                !.completed_at = TRUE,
                !.result = result]

\* the update after execute_pipeline returned (lines 115-120 and 454-459)
RecordResult(rec, result) ==
    [rec EXCEPT !.status = IF result.success THEN "completed" ELSE "failed",
                !.completed_at = TRUE,
                !.result = result]

\* the update after execute_pipeline raised (lines 140-145 and 529-534)
RecordError(rec) ==
    [rec EXCEPT !.status = "failed", !.completed_at = TRUE, !.error = TRUE]

\* The background task's own save (lines 461-516): whatever the store
\* answers is logged, the record is not touched.
RecordAfterSave(rec, answer) == rec

\* A handler that runs the pipeline before it answers, whatever the mode.
NewHandlerRunsFirst(async) ==
    [async |-> async,
     at |-> "executing",
     response |-> IF async THEN "running" ELSE "none",
     returned |-> None,
     health |-> "none", save |-> "none", api_save |-> "none"]

\* the coroutine of an accepted request: the handler itself for a
\* synchronous execution, the background task for an asynchronous one
NewHandler(async) ==
    [async |-> async,
     at |-> IF async THEN "scheduled" ELSE "executing",
     response |-> IF async THEN "running" ELSE "none",
     returned |-> None,
     health |-> "none", save |-> "none", api_save |-> "none"]

\* The coroutine is inside agent_manager_v2.execute_pipeline.
RunInFlight(id) == handlers[id].at \in {"executing", "health", "saving"}

RunsInFlight == {id \in DOMAIN handlers : RunInFlight(id)}

\* GET /status/{execution_id} (lines 162-190)
StatusAnswer(id) ==
    IF id \notin DOMAIN pipeline_execution_store
    THEN [kind |-> "not_found"]
    ELSE [kind |-> "status", status |-> pipeline_execution_store[id].status]

\* POST /execute (lines 22-160) up to its first await or its return
ExecuteRequest ==
    /\ FreshId <= MaxExecutions
    /\ \E async \in BOOLEAN, init \in InitializeOutcomes :
         /\ manager_loaded' = TRUE
         /\ IF init = "ok"
            THEN /\ pipeline_execution_store' =
                       Put(pipeline_execution_store, FreshId, NewExecution)
                 /\ handlers' = Put(handlers, FreshId, NewHandler(async))
            ELSE UNCHANGED <<pipeline_execution_store, handlers>>
    /\ UNCHANGED <<orchVars, runVars, snapshot, normalization, streams, status_response>>

\* POST /initialize (lines 313-346)
InitializeRequest ==
    /\ \E init \in InitializeOutcomes : manager_loaded' = TRUE
    /\ UNCHANGED <<pipeline_execution_store, handlers>>
    /\ UNCHANGED <<orchVars, runVars, snapshot, normalization, streams, status_response>>

\* POST /clear (lines 369-388)
ClearRequest ==
    /\ manager_loaded' = FALSE
    /\ UNCHANGED <<pipeline_execution_store, handlers>>
    /\ UNCHANGED <<orchVars, runVars, snapshot, normalization, streams, status_response>>

\* execute_pipeline has returned to the route, whose coroutine is now h:
\* the record is updated; the synchronous handler answers, the background
\* task of a successful run goes on to its own save.
RunReturns(id, h, result) ==
    /\ pipeline_execution_store' =
         [pipeline_execution_store EXCEPT ![id] = RecordResult(@, result)]
    /\ handlers' =
         [handlers EXCEPT
            ![id] = [h EXCEPT
                       !.returned = result,
                       !.at = IF h.async /\ result.success
                              THEN "api_saving" ELSE "done",
                       !.response = IF h.async THEN @
                                    ELSE IF result.success THEN "completed"
                                                           ELSE "failed"]]

\* _execute_pipeline_background is started (lines 425-446); without a
\* configuration execute_pipeline raises at once (lines 523-534).
BackgroundTaskStarts ==
    \E id \in DOMAIN handlers :
      /\ handlers[id].at = "scheduled"
      /\ IF manager_loaded
         THEN /\ handlers' = [handlers EXCEPT ![id].at = "executing"]
              /\ UNCHANGED pipeline_execution_store
         ELSE /\ handlers' = [handlers EXCEPT ![id].at = "done"]
              /\ pipeline_execution_store' =
                   [pipeline_execution_store EXCEPT ![id] = RecordError(@)]
      /\ UNCHANGED <<manager_loaded, orchVars, runVars, snapshot, normalization, streams, status_response>>

\* The steps of the run are over: with every required step done the
\* orchestrator turns to the backend (agent_manager_v2.py line 209),
\* otherwise it returns the failure.
RunStepsEnd ==
    \E id \in DOMAIN handlers, ok \in BOOLEAN :
      /\ handlers[id].at = "executing"
      /\ IF ok
         THEN /\ handlers' = [handlers EXCEPT ![id].at = "health"]
              /\ UNCHANGED pipeline_execution_store
         ELSE RunReturns(id, handlers[id], RunResult(FALSE))
      /\ UNCHANGED <<manager_loaded, orchVars, runVars, snapshot, normalization, streams, status_response>>

\* _save_project_to_backend, the health check (lines 545-548)
BackendHealthAnswers ==
    \E id \in DOMAIN handlers, answer \in HealthAnswers :
      /\ handlers[id].at = "health"
      /\ IF answer = "healthy"
         THEN /\ handlers' = [handlers EXCEPT ![id].at = "saving",
                                              ![id].health = answer]
              /\ UNCHANGED pipeline_execution_store
         ELSE RunReturns(id, [handlers[id] EXCEPT !.health = answer],
                         ResultAfterSave)
      /\ UNCHANGED <<manager_loaded, orchVars, runVars, snapshot, normalization, streams, status_response>>

\* _save_project_to_backend, the save (lines 559-571): its answer is
\* logged, an exception is swallowed (lines 573-574); execute_pipeline
\* goes on to its return.
BackendSaveAnswers ==
    \E id \in DOMAIN handlers, answer \in SaveAnswers :
      /\ handlers[id].at = "saving"
      /\ RunReturns(id, [handlers[id] EXCEPT !.save = answer], ResultAfterSave)
      /\ UNCHANGED <<manager_loaded, orchVars, runVars, snapshot, normalization, streams, status_response>>

\* the background task's own save is answered (lines 483-516)
ApiSaveAnswers ==
    \E id \in DOMAIN handlers, answer \in SaveAnswers :
      /\ handlers[id].at = "api_saving"
      /\ handlers' = [handlers EXCEPT ![id].at = "done", ![id].api_save = answer]
      /\ pipeline_execution_store' =
           [pipeline_execution_store EXCEPT ![id] = RecordAfterSave(@, answer)]
      /\ UNCHANGED <<manager_loaded, orchVars, runVars, snapshot, normalization, streams, status_response>>

\* The save requests made for the run of execution id: the orchestrator's
\* (agent_manager_v2.py lines 551-562), whose project data carry the run's
\* correlation id as execution_id, and the background task's own
\* (pipelines.py lines 466-490), whose project data carry the execution id
\* of the route.
ForwardsOf(id) ==
    LET h == handlers[id] IN
    (IF h.at = "saving" \/ h.save # "none"
     THEN {[by |-> "agent_manager_v2", answer |-> h.save,
            execution_id |-> [kind |-> "correlation_id", of |-> id]]}
     ELSE {})
    \cup
    (IF h.at = "api_saving" \/ h.api_save # "none"
     THEN {[by |-> "pipelines", answer |-> h.api_save,
            execution_id |-> [kind |-> "execution_id", of |-> id]]}
     ELSE {})

\* The execution ids a status request can name: the ones uuid4 can give
\* out, and one it never gives out.
RequestedIds == 0..MaxExecutions

\* What the status route leaves of the store: an unknown id is answered
\* 404 before anything is written (lines 169-173); for a known id only the
\* progress of a running execution is refreshed (lines 177-179).
StoreAfterStatus(store, id) == store

\* GET /execution/{execution_id}/status (lines 162-190)
StatusRequest ==
    /\ \E id \in RequestedIds :
         /\ status_response' = [id |-> id, answer |-> StatusAnswer(id)]
         /\ pipeline_execution_store' = StoreAfterStatus(pipeline_execution_store, id)
    /\ UNCHANGED <<handlers, manager_loaded>>
    /\ UNCHANGED <<orchVars, runVars, snapshot, normalization, streams>>

\* The requests that execute pipelines and what their runs do.
ExecutionNext ==
    \/ ExecuteRequest
    \/ InitializeRequest
    \/ ClearRequest
    \/ BackgroundTaskStarts
    \/ RunStepsEnd
    \/ BackendHealthAnswers
    \/ BackendSaveAnswers
    \/ ApiSaveAnswers

ApiNext ==
    \/ ExecutionNext
    \/ StatusRequest

ApiSpec == Init /\ [][ApiNext]_vars

\* ------------------------------------------------------ the status stream
\* GET /execution/{execution_id}/stream (lines 192-270): event_stream sends
\* the record of the execution as a status event, again after each second
\* while the execution is running, and a closing event at its end.

\* max_events (line 208)
max_events == 10

\* How many streams are followed.
MaxStreams == 1

\* The generator of a stream just opened (lines 206-208). The run's result
\* holds what the pipeline's agents returned; whether json.dumps can encode
\* that is settled by the pipeline (code_reviewer_agent.process returns a
\* StructuredFeedback object, which json.dumps cannot encode).
NewStream(first_status, results_encodable) ==
    [first_status |-> first_status,
     results_encodable |-> results_encodable,
     sent_events |-> 0,
     closing |-> <<>>,
     at |-> "open"]

\* json.dumps(execution_info) raises (lines 220 and 248): a successful
\* run's result holds agent outputs; a failure holds the error's text only.
DumpsRaises(st, rec) ==
    /\ rec.result # None
    /\ rec.result.success
    /\ ~st.results_encodable

\* The stream ends with a closing event (lines 225-232, 256-262, 264-271).
Closed(st, stream_status) ==
    [st EXCEPT !.closing = Append(@, stream_status), !.at = "closed"]

\* lines 211-234: the first status event; the stream of a finished
\* execution ends at once, the one of a running execution goes to sleep.
FirstEvent(st, rec) ==
    IF DumpsRaises(st, rec) THEN Closed(st, "error")
    ELSE LET sent == [st EXCEPT !.sent_events = @ + 1] IN
         IF rec.status \in {"completed", "failed"} THEN Closed(sent, "completed")
         ELSE IF sent.sent_events < max_events THEN [sent EXCEPT !.at = "sleeping"]
         ELSE Closed(sent, "ended")

\* lines 235-262: after the sleep the record is sent again; the stream ends
\* when the execution is finished or max_events events were sent.
NextEvent(st, rec) ==
    IF DumpsRaises(st, rec) THEN Closed(st, "error")
    ELSE LET sent == [st EXCEPT !.sent_events = @ + 1] IN
         IF rec.status \in {"completed", "failed"} THEN Closed(sent, "ended")
         ELSE IF sent.sent_events < max_events THEN [sent EXCEPT !.at = "sleeping"]
         ELSE Closed(sent, "ended")

\* The stream of a known execution is requested (an unknown id is answered
\* 404, lines 200-204), up to the first sleep or the end of the stream.
StreamOpens ==
    /\ Cardinality(DOMAIN streams) < MaxStreams
    /\ \E id \in DOMAIN pipeline_execution_store \ DOMAIN streams :
         \E results_encodable \in BOOLEAN :
           LET rec == pipeline_execution_store[id] IN
           streams' = Put(streams, id,
                          FirstEvent(NewStream(rec.status, results_encodable), rec))
    /\ UNCHANGED <<apiVars, orchVars, runVars, snapshot, normalization, status_response>>

\* asyncio.sleep(1) is over (line 236), up to the next sleep or the end.
StreamPolls ==
    /\ \E id \in DOMAIN streams :
         /\ streams[id].at = "sleeping"
         /\ streams' = [streams EXCEPT
                          ![id] = NextEvent(@, pipeline_execution_store[id])]
    /\ UNCHANGED <<apiVars, orchVars, runVars, snapshot, normalization, status_response>>

StreamNext ==
    \/ ExecutionNext
    \/ StreamOpens
    \/ StreamPolls

\* The sleep of a stream ends.
StreamSpec == Init /\ [][StreamNext]_vars /\ WF_vars(StreamPolls)

\* ------------------------------------------------- feedback normalization
\* _parse_evaluator_output and FeedbackProcessor.aggregate_feedback on their
\* own: an evaluator output is a StructuredFeedback, a dict with a
\* quality_score, a text, or an object that has no text.

MetricNames ==
    {"complexity_score", "maintainability_score", "readability_score",
     "test_coverage", "performance_score", "security_score"}

\* _parse_text_feedback's keyword lists (lines 358-359 and 372)
PositiveKeywords == {"good", "excellent", "well", "clear", "efficient", "secure"}

NegativeKeywords == {"bad", "poor", "unclear", "inefficient", "insecure", "complex"}

SuggestionKeywords == {"suggest", "recommend", "should", "could", "improve"}

\* The keywords that `keyword in text` finds in a word: the word itself and
\* the keywords that are part of it.
KeywordsIn(word) ==
    {word} \cup
    (CASE word = "unclear" -> {"clear"}
       [] word = "inefficient" -> {"efficient"}
       [] word = "insecure" -> {"secure"}
       [] word = "complexity" -> {"complex"}
       [] word = "improvement" -> {"improve"}
       [] OTHER -> {})

\* A line of text is the set of its words, a text the sequence of its lines.
KeywordsOfLine(line) == UNION {KeywordsIn(w) : w \in line}

KeywordsOfText(lines) == UNION {KeywordsOfLine(lines[i]) : i \in 1..Len(lines)}

\* lines that can make up an evaluator's text
PraiseLine == {"good", "excellent", "well"}

MorePraiseLine == {"clear", "efficient", "secure"}

BlameLine == {"bad", "poor", "low", "complexity"}

MoreBlameLine == {"unclear", "inefficient", "insecure"}

PlainLine == {"the", "code", "runs"}

Ordinals == <<"first", "second", "third", "fourth", "fifth", "sixth", "seventh">>

AdviceLine(i) == {"should", "improve", "the", Ordinals[i], "function"}

\* the texts: up to two lines of praise, blame and advice, and lists of
\* advice longer than the limit
Texts ==
    LET kinds == {PraiseLine, MorePraiseLine, BlameLine, MoreBlameLine, PlainLine,
                  AdviceLine(1)}
    IN  {<<>>} \cup {<<a>> : a \in kinds}
        \cup {<<a, b>> : a \in {PraiseLine, BlameLine}, b \in kinds}
        \cup {<<PraiseLine, MorePraiseLine, PlainLine>>,
              <<BlameLine, MoreBlameLine, PlainLine>>}
        \cup {[i \in 1..n |-> AdviceLine(i)] : n \in 4..7}

\* A key that a dict does not have.
Absent == [kind |-> "absent"]

\* What an evaluator puts under 'quality_metrics': nothing, a dict of some of
\* the six sub-metrics, or a value that is no dict.
MetricsEntries ==
    {Absent, [kind |-> "malformed"]}
    \cup
    { [kind |-> "dict", entries |-> e] :
        e \in { [m \in {} |-> Num(0)],
                [m \in {"complexity_score"} |-> Num(80)],
                [m \in {"test_coverage", "security_score"} |-> Num(120)],
                [m \in MetricNames |-> Num(90)],
                [m \in MetricNames |-> Num(0 - 5)],
                [m \in {"readability_score"} |-> NotANumber] } }

\* What an evaluator puts under 'suggestions' and 'positive_aspects'.
ListEntries == {Absent, [kind |-> "list", items |-> <<AdviceLine(1), AdviceLine(2)>>]}

\* A QualityMetrics built from the given sub-metrics: the dataclass defaults
\* every other one to 0.0 (feedback.py lines 47-55).
QualityMetrics(given) ==
    [m \in MetricNames |-> IF m \in DOMAIN given THEN given[m] ELSE Num(0)]

\* A StructuredFeedback (feedback.py lines 82-92), with what normalization
\* stamps on it.
StructuredFeedback(score, metrics, suggestions, positive_aspects, reviewer) ==
    [quality_score |-> score, quality_metrics |-> metrics,
     suggestions |-> suggestions, positive_aspects |-> positive_aspects,
     reviewer_agent |-> reviewer]

\* The evaluator outputs normalization is given.
NormalizationInputs ==
    { [shape |-> "feedback",
       feedback |-> StructuredFeedback(Num(n), [m \in MetricNames |-> Num(n)],
                                       <<>>, <<>>, "")] : n \in {40, 85, 150} }
    \cup
    { [shape |-> "dict", quality_score |-> v, quality_metrics |-> qm,
       suggestions |-> l, positive_aspects |-> l] :
        v \in {Num(49), Num(150), NotANumber},
        qm \in MetricsEntries, l \in ListEntries }
    \cup
    { [shape |-> "text", lines |-> t] : t \in Texts }
    \cup
    { [shape |-> "object"] }

\* the outputs of the evaluator's further calls
FurtherOutputs ==
    { [shape |-> "feedback",
       feedback |-> StructuredFeedback(Num(85), [m \in MetricNames |-> Num(85)],
                                       <<>>, <<>>, "")],
      [shape |-> "dict", quality_score |-> Num(150), quality_metrics |-> Absent,
       suggestions |-> Absent, positive_aspects |-> Absent],
      [shape |-> "dict", quality_score |-> Num(49),
       quality_metrics |-> [kind |-> "dict",
                            entries |-> [m \in {"readability_score"} |-> NotANumber]],
       suggestions |-> Absent, positive_aspects |-> Absent],
      [shape |-> "text", lines |-> <<BlameLine, AdviceLine(1)>>],
      [shape |-> "object"] }

\* dict.get(key, default) on an entry of the evaluator's dict
GetOr(entry, default) == IF entry = Absent THEN default ELSE entry.items

\* metrics_dict.get(m, default)
MetricOr(entries, m, default) == IF m \in DOMAIN entries THEN entries[m] ELSE default

\* lines 322-329: the default of a sub-metric that the dict under
\* 'quality_metrics' does not have.
MetricDefault(m) == IF m = "test_coverage" THEN Num(0) ELSE Num(50)

\* _dict_to_structured_feedback raises when the value under
\* 'quality_metrics' has no get (line 322).
DictRaises(d) == d.quality_metrics.kind = "malformed"

\* _dict_to_structured_feedback (lines 314-343): the score is taken as it
\* is; without 'quality_metrics' the metrics are QualityMetrics().
DictToStructuredFeedback(d, evaluator_name) ==
    StructuredFeedback(
        d.quality_score,
        IF d.quality_metrics = Absent
        THEN QualityMetrics([m \in {} |-> Num(0)])
        ELSE QualityMetrics([m \in MetricNames |->
                                MetricOr(d.quality_metrics.entries, m, MetricDefault(m))]),
        GetOr(d.suggestions, <<>>),
        GetOr(d.positive_aspects, <<>>),
        evaluator_name)

\* suggestions[:5]
FirstFive(seq) == SubSeq(seq, 1, IF Len(seq) < 5 THEN Len(seq) ELSE 5)

\* A text score that takes 5 for a negative keyword as well.
TextQualityScoreEvenWeights(lines) ==
    Clamp(70 + (Cardinality(PositiveKeywords \cap KeywordsOfText(lines)) * 5)
             - (Cardinality(NegativeKeywords \cap KeywordsOfText(lines)) * 5))

\* lines 354-366: 70, plus 5 for each positive keyword found in the text,
\* minus 10 for each negative one, clamped.
TextQualityScore(lines) ==
    Clamp(70 + (Cardinality(PositiveKeywords \cap KeywordsOfText(lines)) * 5)
             - (Cardinality(NegativeKeywords \cap KeywordsOfText(lines)) * 10))

\* lines 368-373: the lines that hold a suggestion keyword, in order
SuggestionLines(lines) ==
    SelectSeq(lines, LAMBDA line : SuggestionKeywords \cap KeywordsOfLine(line) # {})

\* _parse_text_feedback (lines 345-389)
ParseTextFeedback(lines, evaluator_name) ==
    LET quality_score == TextQualityScore(lines) IN
    StructuredFeedback(
        Num(quality_score),
        [m \in MetricNames |->
            IF m = "test_coverage"
            THEN Num(IF quality_score - 20 < 0 THEN 0 ELSE quality_score - 20)
            ELSE Num(quality_score)],
        FirstFive(SuggestionLines(lines)),
        <<>>,
        evaluator_name)

\* the one suggestion of the default feedback (line 306)
UnableToParse == {"unable", "to", "parse", "detailed", "feedback"}

\* A default feedback whose sub-metrics are all 50.
DefaultFeedbackAllFifty(evaluator_name) ==
    StructuredFeedback(Num(50), [m \in MetricNames |-> Num(50)],
                       <<UnableToParse>>, <<>>, evaluator_name)

\* lines 295-312: the feedback returned when parsing raised
DefaultFeedback(evaluator_name) ==
    StructuredFeedback(Num(50),
                       [m \in MetricNames |->
                           IF m = "test_coverage" THEN Num(0) ELSE Num(50)],
                       <<UnableToParse>>, <<>>, evaluator_name)

\* Parsing raises inside the try block (lines 280-293): the dict conversion
\* raises, or str() of the object does (line 352).
ParsingRaises(out) ==
    \/ out.shape = "dict" /\ DictRaises(out)
    \/ out.shape = "object"

\* _parse_evaluator_output (lines 267-312) in full
NormalizedFeedback(out, evaluator_name) ==
    IF ParsingRaises(out) THEN DefaultFeedback(evaluator_name)
    ELSE IF out.shape = "dict" THEN DictToStructuredFeedback(out, evaluator_name)
    ELSE IF out.shape = "feedback"
    THEN [out.feedback EXCEPT !.reviewer_agent = evaluator_name]
    ELSE ParseTextFeedback(out.lines, evaluator_name)

\* sum(...) over the numbers of a sequence
RECURSIVE SumOf(_)
SumOf(values) ==
    IF values = <<>> THEN 0 ELSE Head(values).value + SumOf(Tail(values))

\* sum(...) / len(feedback_list), kept as the quotient it is
Mean(values) == [type |-> "mean", sum |-> SumOf(values), count |-> Len(values)]

\* The elements of the lists of a sequence of lists, as list(set(...)) keeps
\* them: each one once, in no order one can rely on.
ElementsOf(lists) == UNION { {lists[i][j] : j \in 1..Len(lists[i])} : i \in 1..Len(lists) }

\* aggregate_feedback's sums raise for a score that is no number.
AggregateRaises(list) ==
    \E i \in 1..Len(list) :
        \/ ~IsNumber(list[i].quality_score)
        \/ \E m \in MetricNames : ~IsNumber(list[i].quality_metrics[m])

\* FeedbackProcessor.aggregate_feedback (feedback.py lines 177-216)
AggregateFeedback(list) ==
    IF list = <<>>
    THEN StructuredFeedback(Num(0), QualityMetrics([m \in {} |-> Num(0)]), {}, {}, "")
    ELSE StructuredFeedback(
             Mean([i \in 1..Len(list) |-> list[i].quality_score]),
             [m \in MetricNames |->
                 Mean([i \in 1..Len(list) |-> list[i].quality_metrics[m]])],
             ElementsOf([i \in 1..Len(list) |-> list[i].suggestions]),
             ElementsOf([i \in 1..Len(list) |-> list[i].positive_aspects]),
             "aggregated")

\* The evaluator has returned output and nothing is normalized yet.
EvaluatorReturned(output) ==
    [pending |-> output, feedback_list |-> <<>>, iterations |-> <<>>,
     aggregated |-> None]

\* iterative_executor.py lines 124-143: the evaluator's output is normalized
\* and the iteration recorded as successful with the feedback.
Normalizes ==
    /\ normalization # None
    /\ normalization.pending # None
    /\ LET feedback == NormalizedFeedback(normalization.pending, "evaluator")
           iteration == Len(normalization.iterations) + 1
       IN  normalization' =
             [normalization EXCEPT
                !.pending = None,
                !.feedback_list = Append(@, feedback),
                !.iterations = Append(@, [iteration_number |-> iteration,
                                          evaluator_output |-> normalization.pending,
                                          feedback |-> feedback,
                                          success |-> TRUE])]
    /\ UNCHANGED <<orchVars, runVars, snapshot, apiVars, streams, status_response>>

\* The evaluator of the next iteration returns.
EvaluatorReturnsAgain ==
    /\ normalization # None
    /\ normalization.pending = None
    /\ normalization.aggregated = None
    /\ Len(normalization.feedback_list) < MaxFeedbacks
    /\ \E out \in FurtherOutputs :
           normalization' = [normalization EXCEPT !.pending = out]
    /\ UNCHANGED <<orchVars, runVars, snapshot, apiVars, streams, status_response>>

\* aggregate_feedback is applied to the feedback normalized so far.
Aggregates ==
    /\ normalization # None
    /\ normalization.pending = None
    /\ normalization.aggregated = None
    /\ normalization' =
         [normalization EXCEPT
            !.aggregated =
               IF AggregateRaises(normalization.feedback_list)
               THEN [kind |-> "raised"]
               ELSE AggregateFeedback(normalization.feedback_list)]
    /\ UNCHANGED <<orchVars, runVars, snapshot, apiVars, streams, status_response>>

\* An evaluator has just returned one of its outputs.
NormInit ==
    /\ pipeline_config = None
    /\ active_agents = {}
    /\ progress_data = EmptyDict
    /\ init_result = "none"
    /\ pc = "idle"
    /\ wave = 1
    /\ idx = 1
    /\ current_data = None
    /\ results = EmptyDict
    /\ group_results = EmptyDict
    /\ step_input = EmptyDict
    /\ events = <<>>
    /\ run_result = None
    /\ runs = 0
    /\ backend_saves = 0
    /\ loop = None
    /\ snapshot = None
    /\ pipeline_execution_store = [id \in {} |-> 0]
    /\ handlers = [id \in {} |-> 0]
    /\ manager_loaded = FALSE
    /\ streams = [id \in {} |-> 0]
    /\ status_response = None
    /\ \E out \in NormalizationInputs : normalization = EvaluatorReturned(out)

NormNext == Normalizes \/ EvaluatorReturnsAgain \/ Aggregates

NormSpec == NormInit /\ [][NormNext]_vars

\* ------------------------------------------------------------ properties
\* Facts about the run in flight or just returned, read from what it
\* published, what it handed to its steps and what it collected.
Published(type, s) == \E i \in 1..Len(events) : events[i] = Event(type, s)

Failed(s) == Published("AgentFailed", s)

Called(s) == s \in DOMAIN step_input

WaveOf(s) ==
    LET order == GetExecutionOrder(pipeline_config) IN
    CHOOSE w \in 1..Len(order) : \E i \in 1..Len(order[w]) : order[w][i] = s

IsErrorPayload(v) == v.kind = "error"

IsOptionalErrorPayload(v, s) ==
    /\ v.kind = "error"
    /\ v.by = s
    /\ "optional" \in DOMAIN v
    /\ v.optional

\* A failure that is not the failure of an optional step's agent: a required
\* step failed, or a step raised before it started.
OtherFailure ==
    \E t \in StepSet :
        \/ Failed(t) /\ ~IsOptional(pipeline_config, t)
        \/ Called(t) /\ ~Published("AgentStarted", t)

\* The result of the most recent step before wave w that completed, or the
\* caller's input when there is none (StepNames lists the steps in the order
\* the waves run them).
PriorSuccessfulOutput(w) ==
    LET done == {i \in 1..Len(StepNames) :
                    /\ WaveOf(StepNames[i]) < w
                    /\ StepNames[i] \in DOMAIN results
                    /\ ~IsErrorPayload(results[StepNames[i]])}
    IN  IF done = {} THEN UserInput
        ELSE results[StepNames[CHOOSE i \in done : \A j \in done : j <= i]]

\* C1: a required step's failure is fatal whether its wave has one step or
\* several: no step of a later wave is started or completed, and the run
\* returns success = false.
C1_RequiredFailureIsFatal ==
    pipeline_config # None =>
        \A s \in StepSet :
            (Failed(s) /\ ~IsOptional(pipeline_config, s)) =>
                /\ \A t \in StepSet :
                       WaveOf(t) > WaveOf(s) =>
                           /\ ~Called(t)
                           /\ ~Published("AgentStarted", t)
                           /\ ~Published("AgentCompleted", t)
                           /\ t \notin DOMAIN results
                /\ pc = "idle" => run_result = FailureResult

\* C2: the failure of an optional step's agent does not halt the run: the
\* step's result is an error payload with optional = true, the run does not
\* fail on its account, every later wave runs, and the run returns
\* success = true with that payload under the step's name.
C2_OptionalFailureIsNotFatal ==
    pipeline_config # None =>
        \A s \in StepSet :
            (Failed(s) /\ IsOptional(pipeline_config, s)) =>
                /\ s \in DOMAIN group_results => IsOptionalErrorPayload(group_results[s], s)
                /\ s \in DOMAIN results => IsOptionalErrorPayload(results[s], s)
                /\ pc = "pipeline_failed" => OtherFailure
                /\ (pc = "idle" /\ ~OtherFailure) =>
                       /\ run_result.kind = "result"
                       /\ run_result.success
                       /\ DOMAIN run_result.results = StepSet
                       /\ IsOptionalErrorPayload(run_result.results[s], s)
                       /\ \A t \in StepSet : WaveOf(t) > WaveOf(s) => Called(t)

C2_Witness ==
    /\ pc = "idle"
    /\ pipeline_config # None
    /\ Failed("B")
    /\ IsOptional(pipeline_config, "B")
    /\ ~IsIterative(pipeline_config, "B")
    /\ Published("AgentCompleted", "C")
    /\ run_result.kind = "result"
    /\ run_result.success
    /\ run_result.results["B"] = OptionalErrorPayload("B")
    /\ run_result.results["C"] = Output("C")

\* C3: after an optional step fails, the input handed to the steps of the
\* next wave is the output of the most recent step that completed, never the
\* failed step's error payload.
C3_NextWaveGetsPriorSuccess ==
    pipeline_config # None =>
        \A t \in DOMAIN step_input :
            (\E s \in StepSet : /\ WaveOf(s) + 1 = WaveOf(t)
                                /\ Failed(s)
                                /\ IsOptional(pipeline_config, s))
                => /\ ~IsErrorPayload(step_input[t])
                   /\ step_input[t] = PriorSuccessfulOutput(WaveOf(t))

\* C9: within one execute call the progress_percentage a get_progress read
\* can return never decreases from one step of the run to the next.
C9_ProgressNeverDecreases ==
    [][(/\ pc # "idle"
        /\ "progress_percentage" \in DOMAIN progress_data
        /\ "progress_percentage" \in DOMAIN progress_data')
           => progress_data'.progress_percentage >= progress_data.progress_percentage]_vars

\* C10: whatever a get_progress read returns, progress_percentage = 100
\* implies is_completed = true.
C10_FullProgressMeansCompleted ==
    ("progress_percentage" \in DOMAIN snapshot /\ snapshot.progress_percentage = 100)
        => snapshot.is_completed

\* Facts about the loop used by the properties below.
InLoop == loop.kind = "loop"

LoopEnded == InLoop /\ loop.result # None

ReachedThreshold(it, threshold) ==
    /\ it.success
    /\ IsNumber(it.feedback.quality_score)
    /\ it.feedback.quality_score.value >= threshold

RecordsOf(k) == {i \in 1..Len(loop.iterations) : loop.iterations[i].iteration_number = k}

CallsOf(agent) == {i \in 1..Len(loop.calls) : loop.calls[i].agent = agent}

FailedCalls(agent) ==
    {i \in CallsOf(agent) : loop.calls[i].outcome \in AgentFailures}

\* C4: the loop stops right after the first iteration whose score is at or
\* above the threshold: that iteration is the last one recorded, the loop has
\* ended with threshold_met set, and each agent was called once per
\* iteration up to it and never again.
C4_StopsAtFirstPassingIteration ==
    InLoop =>
        \A i \in 1..Len(loop.iterations) :
            ReachedThreshold(loop.iterations[i], loop.quality_threshold) =>
                /\ i = Len(loop.iterations)
                /\ LoopEnded
                /\ loop.threshold_met
                /\ loop.result.threshold_met
                /\ loop.result.total_iterations = loop.iterations[i].iteration_number
                /\ Cardinality(CallsOf("improver")) = loop.iterations[i].iteration_number
                /\ Cardinality(CallsOf("evaluator")) = loop.iterations[i].iteration_number

C4_Witness ==
    /\ pc = "loop_returned"
    /\ loop.max_iterations = 3
    /\ Len(loop.iterations) = 2
    /\ ~ReachedThreshold(loop.iterations[1], loop.quality_threshold)
    /\ ReachedThreshold(loop.iterations[2], loop.quality_threshold)
    /\ loop.iterations[2].feedback.quality_score.value = loop.quality_threshold
    /\ loop.result.threshold_met

\* C5: when no iteration's score reaches the threshold, the ended loop has
\* recorded exactly max_iterations iterations and threshold_met is false.
C5_ExhaustsMaxIterations ==
    (LoopEnded /\ \A i \in 1..Len(loop.iterations) :
                      ~ReachedThreshold(loop.iterations[i], loop.quality_threshold))
        => /\ loop.result.total_iterations = loop.max_iterations
           /\ ~loop.result.threshold_met

\* C5 as the code has it: when no iteration is recorded as failed and no
\* iteration's score reaches the threshold, the ended loop has recorded
\* exactly max_iterations iterations and threshold_met is false.
C5_ExhaustsMaxIterationsUnlessFailed ==
    (/\ LoopEnded
     /\ \A i \in 1..Len(loop.iterations) :
            /\ loop.iterations[i].success
            /\ ~ReachedThreshold(loop.iterations[i], loop.quality_threshold))
        => /\ loop.result.total_iterations = loop.max_iterations
           /\ Len(loop.iterations) = loop.max_iterations
           /\ ~loop.result.threshold_met

C5_Witness ==
    /\ pc = "loop_returned"
    /\ loop.max_iterations = 3
    /\ loop.result.total_iterations = 3
    /\ ~loop.result.threshold_met
    /\ \A i \in 1..3 :
           /\ loop.iterations[i].success
           /\ ~ReachedThreshold(loop.iterations[i], loop.quality_threshold)

\* C6: the number of recorded iterations never exceeds max_iterations,
\* whatever the agents do and whatever the evaluator returns.
C6_AtMostMaxIterations ==
    (InLoop /\ pc = "loop_returned") =>
        /\ Len(loop.result.iterations) <= loop.max_iterations
        /\ loop.result.total_iterations <= loop.max_iterations

\* C7: when the improver's call of iteration k fails, exactly one iteration
\* is recorded for k, failed, with no output and with its error; the
\* evaluator is not called for k, no agent is called afterwards, and the loop
\* has ended without raising, with total_iterations = k and threshold_met
\* false.
C7_ImproverFailureEndsLoop ==
    InLoop =>
        \A c \in FailedCalls("improver") :
            LET k == loop.calls[c].iteration IN
            /\ c = Len(loop.calls)
            /\ \A e \in CallsOf("evaluator") : loop.calls[e].iteration # k
            /\ Cardinality(RecordsOf(k)) = 1
            /\ \A i \in RecordsOf(k) :
                   /\ ~loop.iterations[i].success
                   /\ loop.iterations[i].output_data = None
                   /\ loop.iterations[i].error_message # None
                   /\ loop.iterations[i].error_message.agent = "improver"
            /\ LoopEnded
            /\ pc # "loop_raised"
            /\ loop.result.total_iterations = k
            /\ ~loop.result.threshold_met

C7_Witness ==
    /\ pc = "loop_returned"
    /\ loop.max_iterations = 3
    /\ Len(loop.calls) = 3
    /\ loop.calls[3] = [agent |-> "improver", iteration |-> 2, outcome |-> "timeout"]
    /\ loop.result.total_iterations = 2
    /\ ~loop.iterations[2].success

\* C8: when the evaluator's call of iteration k fails, exactly one iteration
\* is recorded for k, failed, with the improver's output of k; no agent is
\* called afterwards, the loop has ended without raising, with threshold_met
\* false, and the improvement trend has no entry for k.
C8_EvaluatorFailureEndsLoop ==
    InLoop =>
        \A c \in FailedCalls("evaluator") :
            LET k == loop.calls[c].iteration IN
            /\ c = Len(loop.calls)
            /\ Cardinality(RecordsOf(k)) = 1
            /\ \A i \in RecordsOf(k) :
                   /\ ~loop.iterations[i].success
                   /\ loop.iterations[i].output_data = Code(k)
                   /\ loop.iterations[i].error_message # None
                   /\ loop.iterations[i].error_message.agent = "evaluator"
            /\ LoopEnded
            /\ pc # "loop_raised"
            /\ loop.result.total_iterations = k
            /\ ~loop.result.threshold_met
            /\ Len(loop.result.improvement_trend) = k - 1
            /\ Len(loop.result.improvement_trend)
                   = Cardinality({i \in 1..Len(loop.iterations) : loop.iterations[i].success})

C8_Witness ==
    /\ pc = "loop_returned"
    /\ loop.max_iterations = 3
    /\ Len(loop.calls) = 4
    /\ loop.calls[4] = [agent |-> "evaluator", iteration |-> 2, outcome |-> "raise"]
    /\ loop.iterations[2].output_data = Code(2)
    /\ Len(loop.result.improvement_trend) = 1

\* Facts about a run that has returned.
RunEnded == pc = "idle" /\ run_result # None /\ pipeline_config # None

RequiredStepFailed == \E s \in StepSet : Failed(s) /\ ~IsOptional(pipeline_config, s)

\* C11: a run that ended in failure because a required step failed returned
\* a result (it did not raise) with success = false, an error, and the
\* output of every step that completed before the failure.
C11_FailedRunCarriesPartialOutputs ==
    (RunEnded /\ Published("PipelineFailed", "agent_manager_v2") /\ RequiredStepFailed) =>
        /\ run_result.kind = "result"
        /\ ~run_result.success
        /\ "error" \in DOMAIN run_result
        /\ \A t \in StepSet :
               Published("AgentCompleted", t) =>
                   /\ "results" \in DOMAIN run_result
                   /\ t \in DOMAIN run_result.results
                   /\ run_result.results[t] = results[t]

\* The places inside _execute_single_step and what it calls where the run
\* can be: the awaits, and the agent call of a regular step.
StepAwaits ==
    {"agent_started", "agent_processing", "agent_completed", "agent_failed",
     "loop_started", "improver", "evaluator", "loop_completed", "iterative_completed",
     "iterative_failed", "iterative_raised"}

\* The run is suspended inside step s.
InFlight(s) == pipeline_config # None /\ pc \in StepAwaits /\ CurStep = s

\* Step t is declared after step s in the wave of s.
LaterInWave(s, t) ==
    LET order == GetExecutionOrder(pipeline_config) IN
    \E w \in 1..Len(order) : \E i, j \in 1..Len(order[w]) :
        i < j /\ order[w][i] = s /\ order[w][j] = t

\* The step's result or exception has reached _execute_step_group.
Settled(s) == s \in DOMAIN group_results \/ s \in DOMAIN results

\* C12: the steps of a wave run concurrently: while a step of a multi-step
\* wave is suspended, started and not settled, every step declared after it
\* in the wave has started or can start as the next thing the event loop
\* does, the suspended step still not settled.
C12_WaveStepsRunConcurrently ==
    \A s, t \in StepSet :
        (InFlight(s) /\ LaterInWave(s, t)) =>
            \/ Called(t)
            \/ ENABLED (Next /\ t \in DOMAIN step_input' /\ s \notin DOMAIN group_results')

\* The steps of wave w.
WaveSteps(w) ==
    LET group == GetExecutionOrder(pipeline_config)[w] IN
    {group[i] : i \in 1..Len(group)}

\* The run is suspended inside a step of wave w.
InWave(w) == pc \in StepAwaits /\ wave = w

\* C13: the waves run in the planner's order and each is a barrier: a step
\* is started only when every step of every earlier wave has been started,
\* has settled and has its entry in the results; and once the run is no
\* longer inside a multi-step wave it entered, every step of that wave has
\* been started and has its entry in the results, whether or not a step of
\* the wave failed.
C13_WavesAreBarriers ==
    pipeline_config # None =>
        /\ \A s, t \in StepSet :
               (Called(t) /\ WaveOf(s) < WaveOf(t)) =>
                   /\ Called(s)
                   /\ s \in DOMAIN results
                   /\ ~InWave(WaveOf(s))
        /\ \A w \in 1..Len(GetExecutionOrder(pipeline_config)) :
               (/\ Cardinality(WaveSteps(w)) > 1
                /\ \E s \in WaveSteps(w) : Called(s)
                /\ ~InWave(w))
                   => \A s \in WaveSteps(w) : Called(s) /\ s \in DOMAIN results

C13_Witness ==
    /\ pipeline_config # None
    /\ WaveSteps(1) = {"A", "B"}
    /\ ~IsOptional(pipeline_config, "A")
    /\ Failed("A")
    /\ Published("AgentCompleted", "B")
    /\ {"A", "B"} \subseteq DOMAIN results
    /\ results["A"] = GroupErrorPayload("A")
    /\ results["B"] = Output("B")
    /\ InWave(2)
    /\ Called("C")

\* The step declared last in wave w.
LastOfWave(w) ==
    LET group == GetExecutionOrder(pipeline_config)[w] IN group[Len(group)]

\* C14: every step of the first wave is given the caller's input, every step
\* of a later wave is given the result of the step declared last in the wave
\* before, and the steps of one wave are all given the same input.
C14_FanInIsLastDeclaredStep ==
    pipeline_config # None =>
        /\ \A t \in DOMAIN step_input :
               IF WaveOf(t) = 1
               THEN step_input[t] = UserInput
               ELSE /\ LastOfWave(WaveOf(t) - 1) \in DOMAIN results
                    /\ step_input[t] = results[LastOfWave(WaveOf(t) - 1)]
        /\ \A s, t \in DOMAIN step_input :
               WaveOf(s) = WaveOf(t) => step_input[s] = step_input[t]

C14_Witness ==
    /\ pipeline_config # None
    /\ WaveSteps(1) = {"A", "B"}
    /\ DOMAIN step_input = StepSet
    /\ step_input["A"] = UserInput
    /\ step_input["B"] = UserInput
    /\ results["A"] = Output("A")
    /\ results["B"] = Output("B")
    /\ step_input["C"] = Output("B")

\* An agent is processing: the agent of a regular step, or the improver or
\* the evaluator of an iterative step.
AgentProcessing ==
    /\ pipeline_config # None
    /\ pc \in {"agent_processing", "improver", "evaluator"}

\* C15: while an agent is processing, of a regular step or of an iterative
\* one, a get_progress read can be served.
C15_GetProgressNeverBlocked == AgentProcessing => ENABLED GetProgress

\* C16: every agent call is under a timeout, the call of a regular step's
\* agent too: once a regular step's agent is called, execute_pipeline
\* eventually returns a result, with the step completed or recorded as
\* failed, even if the agent never returns.
C16_RegularAgentCallIsBounded ==
    (pc = "agent_processing") ~> (pc = "idle" /\ run_result # None)

\* An agent of the optional step s could not be created by the last
\* initialize_pipeline, which went on and succeeded.
MissingOptionalAgent(s) ==
    /\ init_result = "ok"
    /\ IsOptional(pipeline_config, s)
    /\ IF IsIterative(pipeline_config, s)
       THEN \/ IterativeConfig.improver_agent \notin active_agents
            \/ IterativeConfig.evaluator_agent \notin active_agents
       ELSE s \notin active_agents

\* C17: an optional step whose agent could not be created is skipped by a
\* later run: the run does not fail on its account, and when no agent fails
\* in the run, the run returns success = true after every later wave has run.
C17_MissingOptionalAgentIsSkipped ==
    pipeline_config # None =>
        \A s \in StepSet :
            (MissingOptionalAgent(s) /\ \A t \in StepSet : ~Failed(t)) =>
                /\ pc # "pipeline_failed"
                /\ RunEnded =>
                       /\ run_result.kind = "result"
                       /\ run_result.success
                       /\ \A t \in StepSet : WaveOf(t) > WaveOf(s) => Called(t)

StepKeys(cfg, s) ==
    IF IsIterative(cfg, s)
    THEN {IterativeConfig.improver_agent, IterativeConfig.evaluator_agent}
    ELSE {s}

TimedOutCalls == {i \in 1..Len(loop.calls) : loop.calls[i].outcome = "timeout"}

\* The value is what an abandoned call returned.
IsLate(v) == "kind" \in DOMAIN v /\ v.kind = "late"

\* A step's result that holds what an abandoned call returned.
UsesLate(v) == v.kind = "iterative" /\ IsLate(v.output)

\* C20: a call that timed out is abandoned and not made again: in one loop
\* each agent is called at most once per iteration number; a call that timed
\* out is the loop's last call and is recorded as one failed iteration with
\* the timeout as its error; and what the abandoned call returns later is in
\* no iteration's output or feedback, not in the final output, and in no
\* step's result.
C20_TimedOutCallIsAbandoned ==
    /\ InLoop =>
           /\ \A agent \in {"improver", "evaluator"} : \A k \in 1..loop.max_iterations :
                  Cardinality({i \in CallsOf(agent) : loop.calls[i].iteration = k}) <= 1
           /\ \A c \in TimedOutCalls :
                  LET k == loop.calls[c].iteration IN
                  /\ c = Len(loop.calls)
                  /\ Cardinality(RecordsOf(k)) = 1
                  /\ \A i \in RecordsOf(k) :
                         /\ ~loop.iterations[i].success
                         /\ loop.iterations[i].feedback = None
                         /\ loop.iterations[i].error_message # None
                         /\ loop.iterations[i].error_message.how = "timeout"
                         /\ loop.iterations[i].error_message.agent = loop.calls[c].agent
           /\ \A i \in 1..Len(loop.iterations) :
                  /\ ~IsLate(loop.iterations[i].output_data)
                  /\ ~IsLate(loop.iterations[i].feedback)
           /\ ~IsLate(loop.final_output)
           /\ loop.result # None => ~IsLate(loop.result.final_output)
    /\ \A s \in DOMAIN group_results : ~UsesLate(group_results[s])
    /\ \A s \in DOMAIN results : ~UsesLate(results[s])

C20_Witness ==
    /\ pc = "iterative_completed"
    /\ InLoop
    /\ Len(loop.calls) = 3
    /\ loop.calls[3] = [agent |-> "improver", iteration |-> 2, outcome |-> "timeout"]
    /\ loop.abandoned = {}
    /\ ~loop.iterations[2].success
    /\ loop.result.final_output = Code(1)

\* Every step of the run of execution id succeeded: the orchestrator went
\* on to _save_project_to_backend.
StepsSucceeded(id) ==
    \/ handlers[id].at \in {"health", "saving"}
    \/ handlers[id].health # "none"

\* execute_pipeline of execution id has returned to its route.
RunOver(id) == handlers[id].returned # None

\* C21: a run in which every step succeeded returns success = true and its
\* execution record ends with status completed, whatever the external store
\* answered to the health check and to the saves.
C21_SaveNeverChangesFinishedRun ==
    \A id \in DOMAIN handlers :
      StepsSucceeded(id) /\ RunOver(id) =>
        /\ handlers[id].returned = RunResult(TRUE)
        /\ pipeline_execution_store[id].status = "completed"

\* The loop of the running iterative step has ended without meeting the
\* threshold, and the step has been reported.
StepReportedBelowThreshold ==
    /\ pc \in {"iterative_completed", "iterative_failed", "iterative_raised"}
    /\ loop.kind = "loop"
    /\ loop.result # None
    /\ ~loop.result.threshold_met

\* C22: an iterative step whose loop ended without meeting the threshold is
\* reported completed, with the loop's output about to be returned, when the
\* loop left an output, and is reported failed only when it left none.
C22_BelowThresholdOutputIsCompleted ==
    StepReportedBelowThreshold =>
      IF loop.result.final_output # None
      THEN /\ pc = "iterative_completed"
           /\ progress_data.steps[CurStep].status = "completed"
           /\ IterativeResult(CurStep, loop.result).output = loop.final_output
           /\ ~IterativeResult(CurStep, loop.result).threshold_met
      ELSE /\ pc # "iterative_completed"
           /\ progress_data.steps[CurStep].status = "failed"

\* The records of the successful iterations of a loop result, in the order
\* in which they were appended.
SuccessfulIterations(res) ==
    SelectSeq(res.iterations, LAMBDA r : r.success)

\* C23: in the result a loop returns, improvement_trend lists the scores of
\* the n successful iterations in iteration order; quality_improvement is
\* the last score minus the first one for n >= 2, and 0 for n < 2.
C23_TrendAndImprovement ==
    (pc = "loop_returned") =>
      LET ok == SuccessfulIterations(loop.result)
          n == Len(ok)
          improvement == GetQualityImprovement(loop.result)
      IN  /\ Len(loop.result.improvement_trend) = n
          /\ \A i \in 1..n :
                loop.result.improvement_trend[i] = ok[i].feedback.quality_score
          /\ \A i \in 1..n : \A j \in 1..n :
                i < j => ok[i].iteration_number < ok[j].iteration_number
          /\ IF n >= 2
             THEN improvement.value =
                    ok[n].feedback.quality_score.value - ok[1].feedback.quality_score.value
             ELSE improvement = Num(0)

\* Three iterations with rising scores, the third one meeting the threshold
\* of 85: the improvement is the third score minus the first one.
C23_Witness ==
    /\ pc = "loop_returned"
    /\ loop.max_iterations = 3
    /\ loop.quality_threshold = 85
    /\ loop.result.total_iterations = 3
    /\ loop.result.threshold_met
    /\ loop.result.improvement_trend = <<Num(40), Num(49), Num(85)>>
    /\ GetQualityImprovement(loop.result) = Num(45)

\* The iterations recorded for the evaluator outputs normalized so far.
NormalizedIterations ==
    IF normalization = None THEN <<>> ELSE normalization.iterations

\* How many of the keywords are found in some word of the text.
KeywordMatches(keywords, lines) ==
    Cardinality({k \in keywords :
                   \E i \in 1..Len(lines) : \E w \in lines[i] : k \in KeywordsIn(w)})

\* C24: normalizing a text never raises; its score is 70 + 5p - 10n clamped
\* to [0,100], p and n being the positive and negative keywords matched;
\* every sub-metric is that score except test_coverage, which is the score
\* minus 20 and at least 0; at most 5 suggestions are extracted.
C24_TextFeedbackScore ==
    \A i \in 1..Len(NormalizedIterations) :
      LET it == NormalizedIterations[i] IN
      it.evaluator_output.shape = "text" =>
        LET lines == it.evaluator_output.lines
            raw == 70 + (5 * KeywordMatches(PositiveKeywords, lines))
                      - (10 * KeywordMatches(NegativeKeywords, lines))
            score == IF raw < 0 THEN 0 ELSE IF raw > 100 THEN 100 ELSE raw
        IN  /\ it.success
            /\ it.feedback.quality_score = Num(score)
            /\ score >= 0 /\ score <= 100
            /\ \A m \in MetricNames \ {"test_coverage"} :
                  it.feedback.quality_metrics[m] = Num(score)
            /\ it.feedback.quality_metrics["test_coverage"] =
                  Num(IF score < 20 THEN 0 ELSE score - 20)
            /\ Len(it.feedback.suggestions) <= 5
            /\ \A j \in 1..Len(it.feedback.suggestions) :
                  \E k \in 1..Len(lines) : it.feedback.suggestions[j] = lines[k]

\* A text of seven lines of advice gave its first five as suggestions, and a
\* text with three negative keywords the score 40 and the test coverage 20.
C24_Witness ==
    /\ Len(NormalizedIterations) = 2
    /\ NormalizedIterations[1].evaluator_output =
         [shape |-> "text", lines |-> [i \in 1..7 |-> AdviceLine(i)]]
    /\ NormalizedIterations[1].feedback.suggestions = [i \in 1..5 |-> AdviceLine(i)]
    /\ NormalizedIterations[2].evaluator_output.shape = "text"
    /\ NormalizedIterations[2].feedback.quality_score = Num(40)
    /\ NormalizedIterations[2].feedback.quality_metrics["test_coverage"] = Num(20)

\* C25 as stated: when parsing an evaluator output raises, the feedback is
\* the neutral one with score 50, all six sub-metrics 50 and the one
\* suggestion that notes the failure, and the iteration is recorded as
\* successful.
C25_ParseFailureGivesAllFifty ==
    \A i \in 1..Len(NormalizedIterations) :
      LET it == NormalizedIterations[i] IN
      ParsingRaises(it.evaluator_output) =>
        /\ it.success
        /\ it.feedback.quality_score = Num(50)
        /\ \A m \in MetricNames : it.feedback.quality_metrics[m] = Num(50)
        /\ it.feedback.suggestions = <<UnableToParse>>

\* C25, amended: when parsing an evaluator output raises, the feedback has
\* score 50, test_coverage 0 and the five other sub-metrics 50, and the one
\* suggestion that notes the failure; the iteration is recorded as
\* successful.
C25_ParseFailureGivesDefault ==
    \A i \in 1..Len(NormalizedIterations) :
      LET it == NormalizedIterations[i] IN
      ParsingRaises(it.evaluator_output) =>
        /\ it.success
        /\ it.feedback.quality_score = Num(50)
        /\ \A m \in MetricNames \ {"test_coverage"} :
              it.feedback.quality_metrics[m] = Num(50)
        /\ it.feedback.quality_metrics["test_coverage"] = Num(0)
        /\ Len(it.feedback.suggestions) = 1
        /\ it.feedback.suggestions[1] = UnableToParse

\* A dict whose 'quality_metrics' is no dict, and after it an object without
\* a text, were normalized to the default feedback.
C25_Witness ==
    /\ Len(NormalizedIterations) = 2
    /\ NormalizedIterations[1].evaluator_output.shape = "dict"
    /\ DictRaises(NormalizedIterations[1].evaluator_output)
    /\ NormalizedIterations[1].feedback = DefaultFeedback("evaluator")
    /\ NormalizedIterations[2].evaluator_output.shape = "object"
    /\ NormalizedIterations[2].feedback = DefaultFeedback("evaluator")
    /\ NormalizedIterations[2].success

\* The dict d has no sub-metric m: it has no 'quality_metrics', or the dict
\* under it has no m.
MetricAbsent(d, m) ==
    \/ d.quality_metrics = Absent
    \/ d.quality_metrics.kind = "dict" /\ m \notin DOMAIN d.quality_metrics.entries

\* C26: for a dict with a numeric quality_score, every sub-metric the dict
\* does not have is 50 in the feedback, and the suggestions and the positive
\* aspects it does not have are empty lists.
C26_AbsentMetricsDefaultToFifty ==
    \A i \in 1..Len(NormalizedIterations) :
      LET it == NormalizedIterations[i]
          d == it.evaluator_output
      IN  (d.shape = "dict" /\ IsNumber(d.quality_score) /\ ~DictRaises(d)) =>
            /\ \A m \in MetricNames :
                  MetricAbsent(d, m) => it.feedback.quality_metrics[m] = Num(50)
            /\ d.suggestions = Absent => it.feedback.suggestions = <<>>
            /\ d.positive_aspects = Absent => it.feedback.positive_aspects = <<>>

\* The score v, a number or the mean of some numbers, is within [0,100].
InRange(v) ==
    \/ v.type = "number" /\ v.value >= 0 /\ v.value <= 100
    \/ v.type = "mean" /\ v.sum >= 0 /\ v.sum <= 100 * v.count

\* The quality score and the six sub-metrics of a feedback are within
\* [0,100].
ScoresInRange(feedback) ==
    /\ InRange(feedback.quality_score)
    /\ \A m \in MetricNames : InRange(feedback.quality_metrics[m])

\* C27: every feedback that normalization or aggregate_feedback produces
\* has its quality score and its six sub-metrics within [0,100], and
\* aggregate_feedback does not raise.
C27_ScoresWithinRange ==
    normalization # None =>
      /\ \A i \in 1..Len(normalization.feedback_list) :
            ScoresInRange(normalization.feedback_list[i])
      /\ normalization.aggregated # None =>
            /\ normalization.aggregated # [kind |-> "raised"]
            /\ ScoresInRange(normalization.aggregated)

\* A request that applies initialize_pipeline or clear_agents to the shared
\* orchestrator: /execute initializes before it runs (line 46).
AppliesInitializeOrClear == ExecuteRequest \/ InitializeRequest \/ ClearRequest

\* C28: at no time are two runs in flight on the shared orchestrator, and
\* initialize or clear is never applied to it while a run is in flight.
C28_OrchestratorUseIsSerialized ==
    /\ [](Cardinality(RunsInFlight) <= 1)
    /\ [][AppliesInitializeOrClear => RunsInFlight = {}]_vars

\* The execution ids the API has issued in a response or is about to.
IssuedIds == DOMAIN handlers

\* The step answers an asynchronous /execute request with the id.
AnswersAsync(id) ==
    /\ id \notin DOMAIN handlers
    /\ id \in DOMAIN handlers'
    /\ handlers'[id].async

\* C29: an asynchronous /execute answers "running" with an execution id no
\* execution had, before the run has executed anything; and the status
\* endpoint never answers not-found for an id that was issued.
C29_AsyncAnswersRunningAtOnce ==
    /\ [][\A id \in 1..MaxExecutions :
            AnswersAsync(id) =>
              /\ id \notin DOMAIN pipeline_execution_store
              /\ handlers'[id].response = "running"
              /\ handlers'[id].at = "scheduled"
              /\ handlers'[id].returned = None
              /\ StatusAnswer(id)' = [kind |-> "status", status |-> "running"]]_vars
    /\ [](\A id \in IssuedIds : StatusAnswer(id).kind = "status")

\* An asynchronous request has been answered and its run has not started;
\* an earlier asynchronous execution is over and the status endpoint
\* answers for both.
C29_Witness ==
    /\ {1, 2} \subseteq IssuedIds
    /\ handlers[1].async /\ handlers[1].at = "done"
    /\ StatusAnswer(1) = [kind |-> "status", status |-> "completed"]
    /\ handlers[2].async /\ handlers[2].at = "scheduled"
    /\ handlers[2].response = "running"
    /\ StatusAnswer(2) = [kind |-> "status", status |-> "running"]

\* The steps that a progress snapshot shows with the status.
StepsWithStatus(p, status) == {s \in DOMAIN p.steps : p.steps[s].status = status}

\* C30: in every snapshot get_progress returns, completed_steps is the
\* number of steps whose status is completed, failed_steps the number of
\* steps whose status is failed, and the two together are at most
\* total_steps.
C30_CountersAgreeWithStatuses ==
    "steps" \in DOMAIN snapshot =>
      /\ snapshot.completed_steps = Cardinality(StepsWithStatus(snapshot, "completed"))
      /\ snapshot.failed_steps = Cardinality(StepsWithStatus(snapshot, "failed"))
      /\ snapshot.completed_steps + snapshot.failed_steps <= snapshot.total_steps

\* The agent calls the loop has made so far, the one in flight included.
Invocations(agent) ==
    Cardinality(CallsOf(agent)) + (IF pc = agent THEN 1 ELSE 0)

LoopTerminated == pc \in {"loop_returned", "loop_raised"}

\* C31: execute_iterative_loop always terminates, by returning or raising,
\* even when an agent never returns; it never makes more than max_iterations
\* improver calls nor more than max_iterations evaluator calls; and a call
\* that was cut off by the timeout is the loop's last call: no agent is
\* being called after it.
C31_LoopAlwaysTerminates ==
    /\ <>LoopTerminated
    /\ [](InLoop =>
            /\ Invocations("improver") <= loop.max_iterations
            /\ Invocations("evaluator") <= loop.max_iterations
            /\ \A c \in TimedOutCalls :
                   /\ c = Len(loop.calls)
                   /\ pc \notin {"improver", "evaluator"})

C31_Witness ==
    /\ pc = "loop_returned"
    /\ loop.max_iterations = 3
    /\ Cardinality(CallsOf("improver")) = 3
    /\ Cardinality(CallsOf("evaluator")) = 3
    /\ loop.calls[6] = [agent |-> "evaluator", iteration |-> 3, outcome |-> "timeout"]
    /\ loop.abandoned # {}

\* The records of the ended loop's successful iterations.
SucceededRecords ==
    {i \in 1..Len(loop.result.iterations) : loop.result.iterations[i].success}

\* C32: when the loop has ended without meeting the threshold and some
\* iteration succeeded, the final output is the improver output of a
\* successful iteration whose score no other successful iteration exceeds,
\* and final_quality_score is that score.
C32_FinalOutputIsBestSoFar ==
    (LoopEnded /\ ~loop.result.threshold_met) =>
        (SucceededRecords # {} =>
            \E i \in SucceededRecords :
                LET best == loop.result.iterations[i] IN
                /\ loop.result.final_output = best.output_data
                /\ loop.result.final_quality_score = best.feedback.quality_score
                /\ \A j \in SucceededRecords :
                       LET other == loop.result.iterations[j].feedback.quality_score IN
                       (IsNumber(other) /\ IsNumber(best.feedback.quality_score))
                           => other.value <= best.feedback.quality_score.value)

\* What the improver of iteration k is to be given, k >= 2, after the
\* recorded iteration before.
RevisionOf(before, k) ==
    [kind |-> "revision", original_request |-> loop.initial_input,
     current_code |-> before.output_data,
     feedback |-> [kind |-> "formatted", of |-> before.feedback],
     iteration |-> k]

\* The input the loop holds is the one meant for iteration k.
InputIsFor(input, k) ==
    IF k = 1 THEN input = loop.initial_input
    ELSE /\ k - 1 <= Len(loop.iterations)
         /\ loop.iterations[k - 1].success
         /\ loop.iterations[k - 1].iteration_number = k - 1
         /\ input = RevisionOf(loop.iterations[k - 1], k)

\* C33: the improver of iteration 1 is called with the initial input; the
\* improver of every iteration k >= 2 is called with the original request
\* (the initial input, the same in every iteration), the improver output and
\* the formatted feedback of iteration k-1, and k; every recorded iteration
\* holds the input its improver was given; and no input is built for an
\* iteration beyond max_iterations.
C33_LoopDataFlow ==
    InLoop =>
        /\ pc = "improver" => InputIsFor(loop.current_input, loop.iteration)
        /\ \A i \in 1..Len(loop.iterations) :
               InputIsFor(loop.iterations[i].input_data,
                          loop.iterations[i].iteration_number)
        /\ loop.current_input # loop.initial_input =>
               /\ loop.current_input.iteration <= loop.max_iterations
               /\ loop.current_input.iteration <= loop.iteration + 1

C33_Witness ==
    /\ pc = "improver"
    /\ loop.iteration = 3
    /\ loop.current_input.original_request = UserInput
    /\ loop.current_input.current_code = Code(2)
    /\ loop.current_input.feedback.of = loop.iterations[2].feedback
    /\ loop.iterations[2].input_data.current_code = Code(1)

\* C34: whenever a progress snapshot names a current step, that step's
\* status in the snapshot is running; and a snapshot in which no step is
\* running names no current step.
C34_CurrentStepIsRunning ==
    HasSteps(snapshot) =>
        /\ snapshot.current_step_info # None =>
               snapshot.steps[snapshot.current_step_info.name].status = "running"
        /\ StepsWithStatus(snapshot, "running") = {} =>
               snapshot.current_step_info = None

StreamClosed(id) == id \in DOMAIN streams /\ streams[id].at = "closed"

\* C35: the stream of a known execution id always ends; it sends at most 10
\* status events, and when it has ended it has sent at least one status
\* event and exactly one closing event, even if the execution is still
\* running; the stream of an execution that had completed or failed when
\* the stream was opened sends one status event and one closing event.
C35_StatusStreamTerminates ==
    /\ \A id \in 1..MaxExecutions :
           (id \in DOMAIN streams) ~> StreamClosed(id)
    /\ [](\A id \in DOMAIN streams :
             /\ streams[id].sent_events <= max_events
             /\ Len(streams[id].closing) <= 1
             /\ streams[id].at = "closed" =>
                    /\ streams[id].sent_events >= 1
                    /\ Len(streams[id].closing) = 1
                    /\ streams[id].first_status \in {"completed", "failed"} =>
                           streams[id].sent_events = 1)

\* Where the events of one of the given types about step s stand among the
\* run's events.
StepEvents(types, s) ==
    {i \in 1..Len(events) : events[i].type \in types /\ events[i].source = s}

\* C36: among the events of a run, every step has at most one AgentStarted
\* event and at most one of AgentCompleted and AgentFailed, which comes
\* after the AgentStarted and never without it; and once the run has ended,
\* every step that was started has its AgentCompleted or AgentFailed.
C36_StepEventsExactlyOnce ==
    \A s \in StepSet :
        LET started == StepEvents({"AgentStarted"}, s)
            ended == StepEvents({"AgentCompleted", "AgentFailed"}, s)
        IN  /\ Cardinality(started) <= 1
            /\ Cardinality(ended) <= Cardinality(started)
            /\ \A i \in started : \A j \in ended : i < j
            /\ RunEnded => Cardinality(ended) = Cardinality(started)

\* Where the events of one of the given types stand among the run's events.
EventsOfType(types) == {i \in 1..Len(events) : events[i].type \in types}

\* C37: among the events of a run, PipelineStarted is the first event and
\* the only one of its type; a PipelineCompleted or PipelineFailed event is
\* the last event and the only one of these two types; and a run that has
\* ended has such an event, PipelineCompleted if it succeeded and
\* PipelineFailed if not, also when the pipeline has iterative steps.
C37_LifecycleEventsBracketRun ==
    LET started == EventsOfType({"PipelineStarted"})
        terminal == EventsOfType({"PipelineCompleted", "PipelineFailed"})
    IN  pipeline_config # None =>
          /\ events # <<>> => started = {1}
          /\ Cardinality(terminal) <= 1
          /\ \A i \in terminal : i = Len(events)
          /\ RunEnded =>
                 /\ Cardinality(terminal) = 1
                 /\ events[Len(events)].type =
                        (IF run_result.success THEN "PipelineCompleted"
                                               ELSE "PipelineFailed")

\* C38: the run of an execution is forwarded to the external store by at
\* most one save request, so under one project identifier, whether it was
\* executed synchronously or in the background; and a run that returned a
\* failure has not been forwarded.
C38_RunIsForwardedAtMostOnce ==
    \A id \in DOMAIN handlers :
        /\ Cardinality(ForwardsOf(id)) <= 1
        /\ Cardinality({f.execution_id : f \in ForwardsOf(id)}) <= 1
        /\ (handlers[id].returned # None /\ ~handlers[id].returned.success) =>
               ForwardsOf(id) = {}

TerminalStatuses == {"completed", "failed"}

\* The run of execution id returned a result with success = true.
ReturnedSuccess(id) ==
    handlers[id].returned # None /\ handlers[id].returned.success

\* C39: a record is created with status running and no completed_at; its
\* status changes at most once, a terminal record never changes again; the
\* status is completed exactly when the run returned a result with success
\* = true and failed when it returned another result or raised;
\* completed_at is set exactly when the status is terminal; and a status
\* request for an id that was never issued is answered not-found and
\* creates no record.
C39_ExecutionRecordLifecycle ==
    /\ [][\A id \in RequestedIds :
            /\ (id \notin DOMAIN pipeline_execution_store
                    /\ id \in DOMAIN pipeline_execution_store') =>
                   /\ pipeline_execution_store'[id].status = "running"
                   /\ ~pipeline_execution_store'[id].completed_at
            /\ id \in DOMAIN pipeline_execution_store =>
                   /\ id \in DOMAIN pipeline_execution_store'
                   /\ pipeline_execution_store[id].status \in TerminalStatuses =>
                          pipeline_execution_store'[id] = pipeline_execution_store[id]
                   /\ pipeline_execution_store'[id].status # "running" =>
                          (pipeline_execution_store'[id].status = "completed"
                               <=> ReturnedSuccess(id)')]_vars
    /\ [][status_response' # status_response =>
            /\ pipeline_execution_store' = pipeline_execution_store
            /\ status_response'.answer.kind = "not_found"
                   <=> status_response'.id \notin DOMAIN pipeline_execution_store']_vars
    /\ [](\A id \in DOMAIN pipeline_execution_store :
             LET rec == pipeline_execution_store[id] IN
             /\ rec.status \in TerminalStatuses \cup {"running"}
             /\ rec.completed_at <=> rec.status \in TerminalStatuses
             /\ rec.status = "completed" <=> ReturnedSuccess(id)
             /\ rec.status = "completed" => rec.result = handlers[id].returned
             /\ (rec.status = "failed" /\ handlers[id].returned = None) => rec.error)

\* One execution is recorded as completed, another as failed because its
\* run raised, and a status request for an id never issued was answered
\* not-found.
C39_Witness ==
    /\ DOMAIN pipeline_execution_store = {1, 2}
    /\ pipeline_execution_store[1].status = "completed"
    /\ pipeline_execution_store[2].status = "failed"
    /\ pipeline_execution_store[2].error
    /\ status_response = [id |-> 0, answer |-> [kind |-> "not_found"]]

\* C40: an initialize_pipeline that returns false leaves the orchestrator
\* as it was before the call or with no pipeline loaded; and no run starts
\* on a configuration next to which an agent of a required step is
\* missing.
C40_FailedInitializeIsAtomic ==
    /\ [][(Initialize /\ init_result' = "failed") =>
            \/ /\ pipeline_config' = pipeline_config
               /\ active_agents' = active_agents
               /\ progress_data' = progress_data
            \/ /\ pipeline_config' = None
               /\ active_agents' = {}]_vars
    /\ [][(pc = "idle" /\ pc' = "pipeline_started") =>
            \A s \in StepSet :
                \/ StepKeys(pipeline_config, s) \subseteq active_agents
                \/ IsOptional(pipeline_config, s)]_vars

====
